---------------------------- MODULE Spec2Model ----------------------------
(***************************************************************************)
(* Model of the dago-domenai profile loader (src/profiles) and of the      *)
(* per-domain check pipeline (src/orchestrator.py, src/core/schema.py),    *)
(* run for one domain or by the batch driver process_domains.              *)
(*                                                                         *)
(* Python dicts are modelled as functions whose DOMAIN is the set of keys, *)
(* Python lists as sequences, Python sets as sets.  Iterating a Python set *)
(* of strings yields an arbitrary order: every such iteration is an        *)
(* existential choice of a permutation.                                    *)
(***************************************************************************)
EXTENDS Integers, Sequences, FiniteSets, TLC

VARIABLES
    \* ---- profile loader (profile_loader.py) ----
    registry,         \* PROFILE_DEPENDENCIES as loaded: name -> list of names
    entry,            \* which loader function the caller invoked
    profiles,         \* the requested profile list (argument)
    lpc,              \* position inside the loader call
    expanded,         \* expand_meta_profiles result (set of names)
    all_profiles,     \* closure set collected by the BFS loop
    in_degree,        \* Kahn in-degree map
    queue,            \* Kahn ready deque
    sorted_profiles,  \* Kahn output list
    error,            \* exception raised by the loader call ("none" if none)
    missing,          \* profiles named by CircularDependencyError
    remaining,        \* get_profile_execution_plan: not yet grouped
    satisfied,        \* get_profile_execution_plan: already grouped
    parallel_groups,  \* get_profile_execution_plan: list of groups
    \* ---- per-domain pipeline (orchestrator.process_domain) ----
    config,           \* the configuration dict handed to process_domain
    pc,               \* position inside process_domain
    checks_to_run,    \* dict returned by determine_checks_to_run
    result,           \* the domain result record being built
    errors,           \* the running error list
    status_result,    \* output of run_status_check, or None
    redirect_result,  \* output of run_redirect_check, or None
    calls,            \* check collaborators awaited so far, in order
    db_calls,         \* persistence writes attempted so far, in order
    exception,        \* exception that left process_domain ("none" if none)
    \* ---- batch driver (orchestrator.process_domains) ----
    bpc,              \* position inside process_domains ("idle": not called)
    domains,          \* the domain list (argument)
    idx,              \* how many domains the for loop has taken
    domain,           \* the domain handed to process_domain
    results,          \* the list of records collected so far
    save_to_db,       \* the local flag deciding whether save_result is called
    \* ---- validate_profile_combination (profile_loader.py) ----
    validation,       \* the (is_valid, error_message) pair returned, or None
    \* ---- is_same_domain (active_check.py, domain_utils.py) ----
    domain1,          \* first argument: a domain or URL
    domain2,          \* second argument: a domain or URL
    fpc,              \* position inside is_same_domain ("idle": not called)
    same_domain       \* the value returned

loaderVars == <<registry, entry, profiles, lpc, expanded, all_profiles, in_degree,
                queue, sorted_profiles, error, missing, remaining, satisfied,
                parallel_groups>>

pipelineVars == <<config, pc, checks_to_run, result, errors, status_result,
                  redirect_result, calls, db_calls, exception>>

driverVars == <<bpc, domains, idx, domain, results, save_to_db>>

validatorVars == <<validation>>

familyVars == <<domain1, domain2, fpc, same_domain>>

vars == <<loaderVars, pipelineVars, driverVars, validatorVars, familyVars>>

-----------------------------------------------------------------------------
(* Bounds of the model *)

\* longest request list handed to resolve_profile_dependencies
MaxRequestLen == 2
\* longest request list handed to get_profile_execution_plan
MaxPlanRequestLen == 1
\* largest dependency closure explored step by step
MaxClosure == 6
\* longest request list resolved against an edited registry
MaxEditedRequestLen == 2

\* longest request list over a registry with nested meta profiles
MaxNestedRequestLen == 2

-----------------------------------------------------------------------------
(* Generic helpers *)

Range(s) == {s[i] : i \in 1..Len(s)}

RECURSIVE Perms(_)
Perms(S) == IF S = {} THEN {<<>>}
            ELSE UNION {{<<x>> \o p : p \in Perms(S \ {x})} : x \in S}

RECURSIVE SetToSeq(_)
SetToSeq(S) == IF S = {} THEN <<>>
               ELSE LET x == CHOOSE y \in S : TRUE IN <<x>> \o SetToSeq(S \ {x})

RECURSIVE Concat(_)
Concat(ss) == IF ss = <<>> THEN <<>> ELSE Head(ss) \o Concat(Tail(ss))

\* number of occurrences of x in the list s
Count(x, s) == Cardinality({i \in 1..Len(s) : s[i] = x})

\* position of the first occurrence of x in s (0 when absent), list.index
Index(x, s) == IF x \in Range(s) THEN CHOOSE i \in 1..Len(s) : s[i] = x /\ \A j \in 1..(i-1) : s[j] # x
               ELSE 0

-----------------------------------------------------------------------------
(* Profile registry: profile_schema.py *)

\* faulty variant of PROFILE_DEPENDENCIES: the core profile http is given the
\* dependency content, which closes a cycle
PROFILE_DEPENDENCIES_HttpNeedsContent ==
    [p \in {"quick-whois", "whois", "dns", "ssl"} |-> <<>>] @@
    ( "http"              :> <<"content">> @@
      "headers"           :> <<"http">> @@
      "content"           :> <<"http">> @@
      "infrastructure"    :> <<"dns", "http">> @@
      "technology"        :> <<"http", "content">> @@
      "seo"               :> <<"http", "content">> @@
      "security"          :> <<"http", "headers", "ssl">> @@
      "compliance"        :> <<"http", "content", "headers">> @@
      "business"          :> <<"whois", "http", "content">> @@
      "language"          :> <<"http", "content">> @@
      "fingerprinting"    :> <<"http", "content">> @@
      "clustering"        :> <<"dns", "whois">> @@
      "quick-check"       :> <<"quick-whois", "http">> @@
      "standard"          :> <<"whois", "dns", "http", "ssl", "seo">> @@
      "technical-audit"   :> <<"whois", "dns", "http", "ssl", "headers", "security",
                               "infrastructure", "technology">> @@
      "business-research" :> <<"whois", "dns", "http", "ssl", "business", "language",
                               "clustering">> @@
      "complete"          :> <<"whois", "dns", "http", "ssl", "headers", "content",
                               "infrastructure", "technology", "seo", "security",
                               "compliance", "business", "language">> @@
      "monitor"           :> <<"quick-whois", "http">> )

PROFILE_DEPENDENCIES ==
    [p \in {"quick-whois", "whois", "dns", "http", "ssl"} |-> <<>>] @@
    ( "headers"           :> <<"http">> @@
      "content"           :> <<"http">> @@
      "infrastructure"    :> <<"dns", "http">> @@
      "technology"        :> <<"http", "content">> @@
      "seo"               :> <<"http", "content">> @@
      "security"          :> <<"http", "headers", "ssl">> @@
      "compliance"        :> <<"http", "content", "headers">> @@
      "business"          :> <<"whois", "http", "content">> @@
      "language"          :> <<"http", "content">> @@
      "fingerprinting"    :> <<"http", "content">> @@
      "clustering"        :> <<"dns", "whois">> @@
      "quick-check"       :> <<"quick-whois", "http">> @@
      "standard"          :> <<"whois", "dns", "http", "ssl", "seo">> @@
      "technical-audit"   :> <<"whois", "dns", "http", "ssl", "headers", "security",
                               "infrastructure", "technology">> @@
      "business-research" :> <<"whois", "dns", "http", "ssl", "business", "language",
                               "clustering">> @@
      "complete"          :> <<"whois", "dns", "http", "ssl", "headers", "content",
                               "infrastructure", "technology", "seo", "security",
                               "compliance", "business", "language">> @@
      "monitor"           :> <<"quick-whois", "http">> )

\* PROFILE_METADATA[p]['category']
ProfileCategory ==
    [p \in {"quick-whois", "whois", "dns", "http", "ssl"} |-> "core"] @@
    [p \in {"headers", "content", "infrastructure", "technology", "seo"} |-> "analysis"] @@
    [p \in {"security", "compliance", "business", "language", "fingerprinting",
            "clustering"} |-> "intelligence"] @@
    [p \in {"quick-check", "standard", "technical-audit", "business-research",
            "complete", "monitor"} |-> "meta"]

get_profile_category(p) == IF p \in DOMAIN ProfileCategory THEN ProfileCategory[p] ELSE "None"

is_core_profile(p) == get_profile_category(p) = "core"

is_meta_profile(p) == get_profile_category(p) = "meta"

\* faulty variant of validate_profile_name: every name passes
validate_profile_name_Lax(reg, p) == TRUE

validate_profile_name(reg, p) == p \in DOMAIN reg

\* faulty variant of get_profile_dependencies: the full registration check in a
\* list is handed out as the fast one
get_profile_dependencies_FastWhois(reg, p) ==
    IF p \in DOMAIN reg
    THEN [i \in 1..Len(reg[p]) |-> IF reg[p][i] = "whois" THEN "quick-whois" ELSE reg[p][i]]
    ELSE <<>>

\* faulty variant of get_profile_dependencies: the fast registration check in a
\* list is handed out as the full one
get_profile_dependencies_FullWhois(reg, p) ==
    IF p \in DOMAIN reg
    THEN [i \in 1..Len(reg[p]) |-> IF reg[p][i] = "quick-whois" THEN "whois" ELSE reg[p][i]]
    ELSE <<>>

get_profile_dependencies(reg, p) == IF p \in DOMAIN reg THEN reg[p] ELSE <<>>

get_all_profiles(reg) == DOMAIN reg

get_core_profiles(reg) == {p \in DOMAIN reg : is_core_profile(p)}

get_meta_profiles(reg) == {p \in DOMAIN reg : is_meta_profile(p)}

\* a name that is in no registry
UnknownName == "bogus"

-----------------------------------------------------------------------------
(* Profile loader: profile_loader.py *)

NoError == "none"

\* faulty variant of ExpandFrom: a meta profile is kept next to its expansion
RECURSIVE ExpandFrom_KeepMeta(_, _, _)
ExpandFrom_KeepMeta(reg, profs, path) ==
    IF profs = <<>> THEN [err |-> "none", out |-> {}]
    ELSE LET profile == Head(profs) IN
         IF ~validate_profile_name(reg, profile)
         THEN [err |-> "UnknownProfileError", out |-> {}]
         ELSE LET sub == IF is_meta_profile(profile)
                         THEN IF profile \in path
                              THEN [err |-> "RecursionError", out |-> {}]
                              ELSE ExpandFrom_KeepMeta(reg, get_profile_dependencies(reg, profile),
                                                       path \cup {profile})
                         ELSE [err |-> "none", out |-> {}]
              IN IF sub.err # "none" THEN sub
                 ELSE LET rest == ExpandFrom_KeepMeta(reg, Tail(profs), path)
                      IN IF rest.err # "none" THEN rest
                         ELSE [err |-> "none", out |-> {profile} \cup sub.out \cup rest.out]

\* expand_meta_profiles(profs): the for loop over the list, recursing into each
\* meta profile's dependency list.  path holds the meta profiles whose expansion
\* is on the call stack: meeting one of them again means the recursion never
\* bottoms out and Python aborts it with RecursionError.
RECURSIVE ExpandFrom(_, _, _)
ExpandFrom(reg, profs, path) ==
    IF profs = <<>> THEN [err |-> NoError, out |-> {}]
    ELSE LET profile == Head(profs) IN
         IF ~validate_profile_name(reg, profile)
         THEN [err |-> "UnknownProfileError", out |-> {}]
         ELSE LET sub == IF is_meta_profile(profile)
                         THEN IF profile \in path
                              THEN [err |-> "RecursionError", out |-> {}]
                              ELSE ExpandFrom(reg, get_profile_dependencies(reg, profile),
                                              path \cup {profile})
                         ELSE [err |-> NoError, out |-> {profile}]
              IN IF sub.err # NoError THEN sub
                 ELSE LET rest == ExpandFrom(reg, Tail(profs), path)
                      IN IF rest.err # NoError THEN rest
                         ELSE [err |-> NoError, out |-> sub.out \cup rest.out]

expand_meta_profiles(reg, profs) == ExpandFrom(reg, profs, {})

\* the collection loops: while the deque is non-empty pop its head, and for each
\* of the head's dependencies (deps, the rest of the inner for loop) add and
\* enqueue it unless it has been seen
RECURSIVE CollectAll(_, _, _, _)
CollectAll(reg, all, q, deps) ==
    IF deps # <<>>
    THEN IF Head(deps) \notin all
         THEN CollectAll(reg, all \cup {Head(deps)}, Append(q, Head(deps)), Tail(deps))
         ELSE CollectAll(reg, all, q, Tail(deps))
    ELSE IF q = <<>> THEN all
         ELSE CollectAll(reg, all, Tail(q), get_profile_dependencies(reg, Head(q)))

\* all_profiles for an expanded set; the deque is seeded with list(expanded), whose
\* order does not change the set collected
CollectDependencies(reg, exp) == CollectAll(reg, exp, SetToSeq(exp), <<>>)

\* faulty variant of InDegreeOf: one increment per profile, not per dependency
InDegreeOf_Capped(reg, all) ==
    [p \in all |-> IF get_profile_dependencies(reg, p) = <<>> THEN 0 ELSE 1]

\* in_degree as built by the two nested for loops: one increment per list entry
InDegreeOf(reg, all) == [p \in all |-> Len(get_profile_dependencies(reg, p))]

\* adj_list[p] as a set: the profiles of all_profiles that list p as a dependency
AdjList(reg, all, p) == {d \in all : p \in Range(get_profile_dependencies(reg, d))}

\* in_degree after popping p: every dependent loses one per occurrence of p
DecrementFor(reg, all, deg, p) ==
    [d \in all |-> IF d \in AdjList(reg, all, p)
                   THEN deg[d] - Count(p, get_profile_dependencies(reg, d))
                   ELSE deg[d]]

\* dependents whose in-degree reaches zero when p is popped
NewlyReady(reg, all, deg, p) ==
    {d \in AdjList(reg, all, p) : deg[d] > 0 /\ DecrementFor(reg, all, deg, p)[d] = 0}

\* faulty variant of CanRun: satisfied is updated inside the loop over
\* remaining, so a profile joins the group of the dependencies it waited for
CanRun_SatisfiedInLoop(reg, rem, sat) ==
    LET first == {p \in rem : \A dep \in Range(get_profile_dependencies(reg, p)) : dep \in sat}
    IN {p \in rem : \A dep \in Range(get_profile_dependencies(reg, p)) : dep \in sat \cup first}

\* faulty variant of CanRun: the dependencies are not looked at
CanRun_Unchecked(reg, rem, sat) == rem

\* profiles whose dependencies are all satisfied (the can_run list, as a set)
CanRun(reg, rem, sat) ==
    {p \in rem : \A dep \in Range(get_profile_dependencies(reg, p)) : dep \in sat}

LoaderDone == lpc \in {"returned", "raised"}

\* lines 89-103 and 131-132: expand the request, UnknownProfileError propagates
Expand ==
    /\ lpc = "expand"
    /\ LET e == expand_meta_profiles(registry, profiles) IN
         IF e.err # NoError
         THEN /\ lpc' = "raised"
              /\ error' = e.err
              /\ UNCHANGED expanded
         ELSE /\ lpc' = "collect"
              /\ expanded' = e.out
              /\ UNCHANGED error
    /\ UNCHANGED <<registry, entry, profiles, all_profiles, in_degree, queue,
                   sorted_profiles, missing, remaining, satisfied, parallel_groups>>
    /\ UNCHANGED <<pipelineVars, driverVars, validatorVars, familyVars>>

\* lines 134-145: collect the dependency closure
Collect ==
    /\ lpc = "collect"
    /\ all_profiles' = CollectDependencies(registry, expanded)
    /\ lpc' = "kahn_init"
    /\ UNCHANGED <<registry, entry, profiles, expanded, in_degree, queue,
                   sorted_profiles, error, missing, remaining, satisfied, parallel_groups>>
    /\ UNCHANGED <<pipelineVars, driverVars, validatorVars, familyVars>>

\* faulty variant of KahnInit: the ready deque is filtered from the request list
\* instead of from the set all_profiles
KahnInit_FromRequest ==
    /\ lpc = "kahn_init"
    /\ in_degree' = InDegreeOf(registry, all_profiles)
    /\ queue' = SelectSeq(profiles,
                          LAMBDA p : p \in all_profiles
                                     /\ get_profile_dependencies(registry, p) = <<>>)
    /\ sorted_profiles' = <<>>
    /\ lpc' = "kahn"
    /\ UNCHANGED <<registry, entry, profiles, expanded, all_profiles, error, missing,
                   remaining, satisfied, parallel_groups>>
    /\ UNCHANGED <<pipelineVars, driverVars, validatorVars, familyVars>>

\* lines 147-160: in-degree map and the initial ready deque, in set iteration order
KahnInit ==
    /\ lpc = "kahn_init"
    /\ in_degree' = InDegreeOf(registry, all_profiles)
    /\ \E q \in Perms({p \in all_profiles : InDegreeOf(registry, all_profiles)[p] = 0}) :
          queue' = q
    /\ sorted_profiles' = <<>>
    /\ lpc' = "kahn"
    /\ UNCHANGED <<registry, entry, profiles, expanded, all_profiles, error, missing,
                   remaining, satisfied, parallel_groups>>
    /\ UNCHANGED <<pipelineVars, driverVars, validatorVars, familyVars>>

\* lines 162-170: one iteration of the while loop
KahnStep ==
    /\ lpc = "kahn"
    /\ queue # <<>>
    /\ LET profile == Head(queue) IN
         /\ sorted_profiles' = Append(sorted_profiles, profile)
         /\ in_degree' = DecrementFor(registry, all_profiles, in_degree, profile)
         /\ \E ready \in Perms(NewlyReady(registry, all_profiles, in_degree, profile)) :
               queue' = Tail(queue) \o ready
    /\ UNCHANGED <<registry, entry, profiles, lpc, expanded, all_profiles, error, missing,
                   remaining, satisfied, parallel_groups>>
    /\ UNCHANGED <<pipelineVars, driverVars, validatorVars, familyVars>>

\* faulty variant of KahnFinish: the length comparison is left out
KahnFinish_NoCycleCheck ==
    /\ lpc = "kahn"
    /\ queue = <<>>
    /\ remaining' = IF entry = "plan" THEN Range(sorted_profiles) ELSE {}
    /\ satisfied' = {}
    /\ parallel_groups' = <<>>
    /\ lpc' = IF entry = "plan" /\ sorted_profiles # <<>> THEN "groups" ELSE "returned"
    /\ UNCHANGED <<missing, error>>
    /\ UNCHANGED <<registry, entry, profiles, expanded, all_profiles, in_degree, queue,
                   sorted_profiles>>
    /\ UNCHANGED <<pipelineVars, driverVars, validatorVars, familyVars>>

\* lines 172-179, and lines 301-310 when called from get_profile_execution_plan
KahnFinish ==
    /\ lpc = "kahn"
    /\ queue = <<>>
    /\ IF Len(sorted_profiles) # Cardinality(all_profiles)
       THEN /\ missing' = all_profiles \ Range(sorted_profiles)
            /\ error' = "CircularDependencyError"
            /\ lpc' = "raised"
            /\ UNCHANGED <<remaining, satisfied, parallel_groups>>
       ELSE /\ remaining' = IF entry = "plan" THEN Range(sorted_profiles) ELSE {}
            /\ satisfied' = {}
            /\ parallel_groups' = <<>>
            /\ lpc' = IF entry = "plan" /\ sorted_profiles # <<>> THEN "groups" ELSE "returned"
            /\ UNCHANGED <<missing, error>>
    /\ UNCHANGED <<registry, entry, profiles, expanded, all_profiles, in_degree, queue,
                   sorted_profiles>>
    /\ UNCHANGED <<pipelineVars, driverVars, validatorVars, familyVars>>

\* lines 312-325: one iteration of the grouping loop
GroupStep ==
    /\ lpc = "groups"
    /\ LET ready == CanRun(registry, remaining, satisfied) IN
         IF ready = {}
         THEN /\ lpc' = "returned"
              /\ UNCHANGED <<parallel_groups, satisfied, remaining>>
         ELSE /\ \E can_run \in Perms(ready) :
                    parallel_groups' = Append(parallel_groups, can_run)
              /\ satisfied' = satisfied \cup ready
              /\ remaining' = remaining \ ready
              /\ lpc' = IF remaining \ ready = {} THEN "returned" ELSE "groups"
    /\ UNCHANGED <<registry, entry, profiles, expanded, all_profiles, in_degree, queue,
                   sorted_profiles, error, missing>>
    /\ UNCHANGED <<pipelineVars, driverVars, validatorVars, familyVars>>

NextLoader == Expand \/ Collect \/ KahnInit \/ KahnStep \/ KahnFinish \/ GroupStep

\* the value returned by resolve_profile_dependencies
execution_order == sorted_profiles

\* lines 304-305: the categorised lists of the plan
core_profiles == SelectSeq(execution_order, is_core_profile)

IsAnalysis(p) == ~is_core_profile(p) /\ ~is_meta_profile(p)

analysis_profiles == SelectSeq(execution_order, IsAnalysis)

-----------------------------------------------------------------------------
(* Python dict helpers *)

None == "None"

EmptyDict == <<>>

\* d.get(k, default)
Get(d, k, default) == IF k \in DOMAIN d THEN d[k] ELSE default

\* d[k] = v
DictSet(d, k, v) == [x \in (DOMAIN d) \cup {k} |-> IF x = k THEN v ELSE d[x]]

\* 'error' in d
HasError(d) == "error" \in DOMAIN d

-----------------------------------------------------------------------------
(* Result schema: core/schema.py *)

new_domain_result(d, task) ==
    [ domain  |-> d,
      meta    |-> [task |-> task, status |-> "pending", errors |-> <<>>],
      checks  |-> EmptyDict,
      summary |-> [reachable |-> FALSE, https |-> FALSE, issues |-> 0, warnings |-> 0,
                   grade |-> "N/A"] ]

\* update_result_meta: errors are stored only when the list is non-empty
update_result_meta(res, status, errs) ==
    [res EXCEPT !.meta = IF errs # <<>>
                         THEN DictSet(DictSet(@, "status", status), "errors", errs)
                         ELSE DictSet(@, "status", status)]

add_check_result(res, check_name, check_data) ==
    [res EXCEPT !.checks = DictSet(@, check_name, check_data)]

\* final_url.startswith("https://")
StartsWithHttps(url) == url = "https://example.lt/"

\* faulty variant of GradeOf: the ladder without its reachability rung
GradeOf_Unreachable(reachable, issues, warnings) ==
    IF issues > 2 THEN "D"
    ELSE IF issues > 0 THEN "C"
    ELSE IF warnings > 0 THEN "B"
    ELSE "A"

\* the grade ladder of update_summary
GradeOf(reachable, issues, warnings) ==
    IF ~reachable THEN "F"
    ELSE IF issues > 2 THEN "D"
    ELSE IF issues > 0 THEN "C"
    ELSE IF warnings > 0 THEN "B"
    ELSE "A"

\* the number of recorded checks that carry an error
IssuesOf(checks) == Cardinality({c \in DOMAIN checks : Get(checks[c], "error", None) # None})

update_summary(res) ==
    LET checks    == res.checks
        reachable == IF "status" \in DOMAIN checks
                     THEN Get(checks["status"], "ok", FALSE)
                     ELSE res.summary.reachable
        https     == IF "status" \in DOMAIN checks
                     THEN LET final_url == Get(checks["status"], "final_url", None)
                          IN IF final_url # None THEN StartsWithHttps(final_url) ELSE FALSE
                     ELSE res.summary.https
        issues    == IssuesOf(checks)
        warnings  == 0
    IN [res EXCEPT !.summary = [reachable |-> reachable, https |-> https,
                                issues |-> issues, warnings |-> warnings,
                                grade |-> GradeOf(reachable, issues, warnings)]]

-----------------------------------------------------------------------------
(* Check collaborators: what the network can answer *)

\* DASClient.check_domain: registered / available / socket failure / unparsable reply
DasReplies ==
    { [registered |-> "True",  status |-> "registered"],
      [registered |-> "False", status |-> "available"],
      [registered |-> "None",  status |-> "error", error |-> "Connection timeout"],
      [registered |-> "True",  status |-> "error"] }

\* WHOISClient.query: detailed data or an error (rate limit, socket failure)
WhoisReplies ==
    { [status |-> "registered"],
      [error |-> "rate_limit_exceeded"] }

\* run_das_check: the fast registration check
run_das_check(das) ==
    IF Get(das, "status", None) = "error"
    THEN [status |-> "error", error |-> Get(das, "error", "DAS query failed")]
    ELSE LET das_status    == Get(das, "status", "")
             is_registered == das_status \notin {"available", "error"}
             status        == IF is_registered THEN "registered" ELSE "available"
         IN [status |-> status, registration |-> [status |-> status, das_status |-> das_status]]

\* run_whois_check: DAS first, WHOIS port 43 for registered domains only
run_whois_check(das, whois_data) ==
    LET is_registered == Get(das, "registered", None) IN
    IF is_registered = None
    THEN [status |-> "error", error |-> Get(das, "error", "DAS query failed"),
          method |-> "DAS"]
    ELSE IF is_registered = "False"
    THEN [status |-> "available", method |-> "DAS"]
    ELSE IF HasError(whois_data)
    THEN [status |-> "registered", method |-> "DAS+WHOIS",
          whois_error |-> whois_data["error"],
          registration |-> [status |-> Get(das, "status", "registered")]]
    ELSE [status |-> "registered", method |-> "DAS+WHOIS",
          registration |-> [status |-> Get(whois_data, "status", "registered")],
          registrar |-> "registrar"]

\* run_status_check
StatusReplies ==
    { [code |-> "200", ok |-> TRUE,  final_url |-> "https://example.lt/"],
      [code |-> "200", ok |-> TRUE,  final_url |-> "http://example.lt/"],
      [code |-> "404", ok |-> FALSE, final_url |-> "https://example.lt/"],
      [code |-> None,  ok |-> FALSE, final_url |-> None, error |-> "Request timeout"] }

\* run_redirect_check
RedirectReplies ==
    { [length |-> "0", final_url |-> "https://example.lt/"],
      [length |-> "0", final_url |-> None, error |-> "Request timeout"] }

\* run_active_check
ActiveReplies ==
    { [active |-> TRUE,  reason |-> "Active site",    captured_domains |-> <<>>],
      [active |-> TRUE,  reason |-> "Active site",    captured_domains |-> <<"other.lt">>],
      [active |-> FALSE, reason |-> "No DNS resolution", captured_domains |-> <<>>],
      [active |-> FALSE, reason |-> "Redirects to different domain",
       captured_domains |-> <<"other.lt">>] }

\* run_robots_check, run_sitemap_check
FoundReplies ==
    { [found |-> TRUE, valid |-> TRUE],
      [found |-> FALSE, valid |-> FALSE, error |-> "Request timeout"] }

\* run_ssl_check
SslReplies ==
    { [valid |-> TRUE],
      [valid |-> FALSE, error |-> "Could not retrieve certificate"] }

-----------------------------------------------------------------------------
(* Check selection: orchestrator.determine_checks_to_run *)

PROFILES_AVAILABLE == TRUE

\* the profiles Kahn's loop emits: those all of whose dependencies are emitted
RECURSIVE KahnEmitted(_, _, _)
KahnEmitted(reg, all, done) ==
    LET ready == {p \in all \ done :
                    \A dep \in Range(get_profile_dependencies(reg, p)) : dep \in done}
    IN IF ready = {} THEN done ELSE KahnEmitted(reg, all, done \cup ready)

\* resolve_profile_dependencies as a whole call: the exception it raises, or the
\* set of names in the order it returns
ResolveCall(reg, req) ==
    LET e == expand_meta_profiles(reg, req) IN
    IF e.err # NoError THEN [err |-> e.err, names |-> {}]
    ELSE LET all == CollectDependencies(reg, e.out)
             out == KahnEmitted(reg, all, {})
         IN IF Cardinality(out) # Cardinality(all)
            THEN [err |-> "CircularDependencyError", names |-> {}]
            ELSE [err |-> NoError, names |-> out]

\* faulty variant of LegacyChecks: the whois flag of the config is not read
LegacyChecks_WhoisAlways(cfg) ==
    LET checks_config == Get(cfg, "checks", EmptyDict) IN
    [c \in {"whois", "status", "redirect", "robots", "sitemap", "ssl"} |->
        IF c = "whois" THEN TRUE
        ELSE Get(Get(checks_config, c, EmptyDict), "enabled", TRUE)]

\* the legacy branch: one flag per check, enabled unless the config says otherwise
LegacyChecks(cfg) ==
    LET checks_config == Get(cfg, "checks", EmptyDict) IN
    [c \in {"whois", "status", "redirect", "robots", "sitemap", "ssl"} |->
        Get(Get(checks_config, c, EmptyDict), "enabled", TRUE)]

determine_checks_to_run(cfg, profs) ==
    IF profs = <<>> \/ ~PROFILES_AVAILABLE
    THEN LegacyChecks(cfg)
    ELSE LET r == ResolveCall(PROFILE_DEPENDENCIES, profs) IN
         IF r.err # NoError
         THEN LegacyChecks(cfg)
         ELSE ( "quick-whois" :> ("quick-whois" \in r.names) @@
                "whois"       :> ("whois" \in r.names) @@
                "http"        :> ("http" \in r.names) @@
                "ssl"         :> ("ssl" \in r.names) @@
                "dns"         :> ("dns" \in r.names) @@
                "status"      :> ("http" \in r.names) @@
                "redirect"    :> ("http" \in r.names) @@
                "robots"      :> ("seo" \in r.names) @@
                "sitemap"     :> ("seo" \in r.names) )

-----------------------------------------------------------------------------
(* Per-domain pipeline: orchestrator.process_domain *)

Domain == "example.lt"

get_database_config(cfg) == Get(cfg, "database", EmptyDict)

\* db_config.get('save_results', True)
SaveResults(cfg) == Get(get_database_config(cfg), "save_results", TRUE)

\* db_config['postgres_url'] raises KeyError when the key is absent
HasPostgresUrl(cfg) == "postgres_url" \in DOMAIN get_database_config(cfg)

\* estimate_duration: a bucket keyed off the number of core profiles
estimate_duration(names) ==
    LET core_count == Cardinality({p \in names : is_core_profile(p)})
    IN IF core_count <= 1 THEN "0.5-2s"
       ELSE IF core_count = 2 THEN "1.5-4s"
       ELSE IF core_count <= 4 THEN "3-7s"
       ELSE "4-10s"

\* lines 126-129
TaskOf(cfg, profs) ==
    IF profs # <<>> THEN [kind |-> "profiles", names |-> profs]
    ELSE [kind |-> Get(Get(cfg, "orchestrator", EmptyDict), "default_task", "basic-scan"),
          names |-> <<>>]

\* lines 139-150: the plan metadata, left out when the plan cannot be generated.
\* execution_order is recorded as the set of its names: its order is the
\* resolver's tie-break.
WithProfileMeta(res, profs) ==
    LET r == ResolveCall(PROFILE_DEPENDENCIES, profs) IN
    IF profs # <<>> /\ PROFILES_AVAILABLE /\ r.err = NoError
    THEN [res EXCEPT !.meta = DictSet(@, "profiles",
                        [requested |-> profs, execution_order |-> r.names,
                         estimated_duration |-> estimate_duration(r.names)])]
    ELSE res

\* lines 278-284
total_checks(cfg) ==
    LET checks_config == Get(cfg, "checks", EmptyDict)
    IN Cardinality({c \in DOMAIN checks_config : Get(checks_config[c], "enabled", TRUE)})

OverallStatus(cfg, errs) ==
    IF errs # <<>>
    THEN IF Len(errs) = total_checks(cfg) THEN "error" ELSE "partial"
    ELSE "success"

\* result['meta']['skip_reason'] = reason
\* faulty variant of WithSkipReason: the reason is not stored
WithSkipReason_Dropped(res, reason) == res

WithSkipReason(res, reason) == [res EXCEPT !.meta = DictSet(@, "skip_reason", reason)]

\* faulty variant of QuickIsRegistered: an error of the fast check counts as
\* an unregistered domain
QuickIsRegistered_ErrorUnregistered(quick_whois_result) ==
    Get(quick_whois_result, "status", None) = "registered"

\* is_registered as line 166-167 derives it from the fast check
QuickIsRegistered(quick_whois_result) ==
    IF Get(quick_whois_result, "status", None) # "error"
    THEN Get(quick_whois_result, "status", None) = "registered"
    ELSE TRUE

\* is_registered as line 186 derives it from the full check
WhoisIsRegistered(whois_result) == Get(whois_result, "registered", TRUE)

\* faulty variant of IsActive: the activity result is ignored
IsActive_Ignored(active_result) == TRUE

\* line 220: is_active = active_result.get('active', True)
IsActive(active_result) == Get(active_result, "active", TRUE)

FlagWrite(flag, value) == [op |-> "update_domain_flags", flag |-> flag, value |-> value]

CapturedWrite == [op |-> "insert_captured_domains", flag |-> "none", value |-> TRUE]

\* lines 122-154: select the checks, create the record, attach the plan metadata
StartDomain ==
    /\ pc = "start"
    /\ checks_to_run' = determine_checks_to_run(config, profiles)
    /\ result' = WithProfileMeta(new_domain_result(domain, TaskOf(config, profiles)), profiles)
    /\ errors' = <<>>
    /\ pc' = "registration"
    /\ UNCHANGED <<config, status_result, redirect_result, calls, db_calls, exception>>
    /\ UNCHANGED <<loaderVars, driverVars, validatorVars, familyVars>>

\* lines 169-180 and 188-199: the flag write and the bailout shared by both variants
AfterRegistration(res, is_registered) ==
    IF SaveResults(config) /\ ~HasPostgresUrl(config)
    THEN /\ exception' = "KeyError"
         /\ pc' = "raised"
         /\ result' = res
         /\ UNCHANGED db_calls
    ELSE /\ db_calls' = IF SaveResults(config)
                        THEN Append(db_calls, FlagWrite("is_registered", is_registered))
                        ELSE db_calls
         /\ UNCHANGED exception
         /\ IF ~is_registered
            THEN /\ result' = WithSkipReason(update_result_meta(res, "skipped", errors),
                                             "unregistered")
                 /\ pc' = "returned"
            ELSE /\ result' = res
                 /\ pc' = "status"

\* lines 160-180: the fast variant
QuickWhoisCheck ==
    /\ pc = "registration"
    /\ Get(checks_to_run, "quick-whois", FALSE)
    /\ \E das \in DasReplies :
         LET quick_whois_result == run_das_check(das)
         IN AfterRegistration(add_check_result(result, "quick-whois", quick_whois_result),
                              QuickIsRegistered(quick_whois_result))
    /\ calls' = Append(calls, "run_das_check")
    /\ UNCHANGED <<config, checks_to_run, errors, status_result, redirect_result>>
    /\ UNCHANGED <<loaderVars, driverVars, validatorVars, familyVars>>

\* faulty variant of WhoisCheck: an if in place of the elif, so the full
\* variant may run although the fast one is selected
WhoisCheck_NotElse ==
    /\ pc = "registration"
    /\ Get(checks_to_run, "whois", TRUE)
    /\ \E das \in DasReplies, whois_data \in WhoisReplies :
         LET whois_result == run_whois_check(das, whois_data)
         IN AfterRegistration(add_check_result(result, "whois", whois_result),
                              WhoisIsRegistered(whois_result))
    /\ calls' = Append(calls, "run_whois_check")
    /\ UNCHANGED <<config, checks_to_run, errors, status_result, redirect_result>>
    /\ UNCHANGED <<loaderVars, driverVars, validatorVars, familyVars>>

\* lines 182-199: the full variant
WhoisCheck ==
    /\ pc = "registration"
    /\ ~Get(checks_to_run, "quick-whois", FALSE)
    /\ Get(checks_to_run, "whois", TRUE)
    /\ \E das \in DasReplies, whois_data \in WhoisReplies :
         LET whois_result == run_whois_check(das, whois_data)
         IN AfterRegistration(add_check_result(result, "whois", whois_result),
                              WhoisIsRegistered(whois_result))
    /\ calls' = Append(calls, "run_whois_check")
    /\ UNCHANGED <<config, checks_to_run, errors, status_result, redirect_result>>
    /\ UNCHANGED <<loaderVars, driverVars, validatorVars, familyVars>>

\* lines 160 and 182 both false: no registration check is selected
NoRegistrationCheck ==
    /\ pc = "registration"
    /\ ~Get(checks_to_run, "quick-whois", FALSE)
    /\ ~Get(checks_to_run, "whois", TRUE)
    /\ pc' = "status"
    /\ UNCHANGED <<config, checks_to_run, result, errors, status_result, redirect_result,
                   calls, db_calls, exception>>
    /\ UNCHANGED <<loaderVars, driverVars, validatorVars, familyVars>>

\* faulty variant of StatusCheck: an error of the status check ends the run
StatusCheck_StopOnError ==
    /\ pc = "status"
    /\ IF Get(checks_to_run, "status", TRUE)
       THEN \E r \in StatusReplies :
              /\ status_result' = r
              /\ result' = add_check_result(result, "status", r)
              /\ errors' = IF HasError(r) THEN Append(errors, "status") ELSE errors
              /\ calls' = Append(calls, "run_status_check")
              /\ pc' = IF HasError(r) THEN "finalize" ELSE "redirect"
       ELSE /\ UNCHANGED <<status_result, result, errors, calls>>
            /\ pc' = "redirect"
    /\ UNCHANGED <<config, checks_to_run, redirect_result, db_calls, exception>>
    /\ UNCHANGED <<loaderVars, driverVars, validatorVars, familyVars>>

\* lines 205-209
StatusCheck ==
    /\ pc = "status"
    /\ IF Get(checks_to_run, "status", TRUE)
       THEN \E r \in StatusReplies :
              /\ status_result' = r
              /\ result' = add_check_result(result, "status", r)
              /\ errors' = IF HasError(r) THEN Append(errors, "status") ELSE errors
              /\ calls' = Append(calls, "run_status_check")
       ELSE UNCHANGED <<status_result, result, errors, calls>>
    /\ pc' = "redirect"
    /\ UNCHANGED <<config, checks_to_run, redirect_result, db_calls, exception>>
    /\ UNCHANGED <<loaderVars, driverVars, validatorVars, familyVars>>

\* faulty variant of RedirectCheck: with no status and no redirect result to
\* pass along, the activity determination is left out
RedirectCheck_SkipsActivity ==
    /\ pc = "redirect"
    /\ IF Get(checks_to_run, "redirect", TRUE)
       THEN \E r \in RedirectReplies :
              /\ redirect_result' = r
              /\ result' = add_check_result(result, "redirects", r)
              /\ errors' = IF HasError(r) THEN Append(errors, "redirects") ELSE errors
              /\ calls' = Append(calls, "run_redirect_check")
              /\ pc' = "active"
       ELSE /\ UNCHANGED <<redirect_result, result, errors, calls>>
            /\ pc' = IF "run_status_check" \in Range(calls) THEN "active" ELSE "robots"
    /\ UNCHANGED <<config, checks_to_run, status_result, db_calls, exception>>
    /\ UNCHANGED <<loaderVars, driverVars, validatorVars, familyVars>>

\* lines 211-215
RedirectCheck ==
    /\ pc = "redirect"
    /\ IF Get(checks_to_run, "redirect", TRUE)
       THEN \E r \in RedirectReplies :
              /\ redirect_result' = r
              /\ result' = add_check_result(result, "redirects", r)
              /\ errors' = IF HasError(r) THEN Append(errors, "redirects") ELSE errors
              /\ calls' = Append(calls, "run_redirect_check")
       ELSE UNCHANGED <<redirect_result, result, errors, calls>>
    /\ pc' = "active"
    /\ UNCHANGED <<config, checks_to_run, status_result, db_calls, exception>>
    /\ UNCHANGED <<loaderVars, driverVars, validatorVars, familyVars>>

\* lines 217-249: activity determination, captured domains, flag write, bailout
ActiveCheck ==
    /\ pc = "active"
    /\ \E active_result \in ActiveReplies :
         LET res              == add_check_result(result, "active", active_result)
             is_active        == IsActive(active_result)
             captured_domains == Get(active_result, "captured_domains", <<>>)
             \* the insert sits in a try block: a missing postgres_url is swallowed
             afterCapture     == IF captured_domains # <<>> /\ SaveResults(config)
                                    /\ HasPostgresUrl(config)
                                 THEN Append(db_calls, CapturedWrite)
                                 ELSE db_calls
         IN IF SaveResults(config) /\ ~HasPostgresUrl(config)
            THEN /\ exception' = "KeyError"
                 /\ pc' = "raised"
                 /\ result' = res
                 /\ db_calls' = afterCapture
            ELSE /\ db_calls' = IF SaveResults(config)
                                THEN Append(afterCapture, FlagWrite("is_active", is_active))
                                ELSE afterCapture
                 /\ UNCHANGED exception
                 /\ IF ~is_active
                    THEN /\ result' = WithSkipReason(update_result_meta(res, "partial", errors),
                                                     "inactive")
                         /\ pc' = "returned"
                    ELSE /\ result' = res
                         /\ pc' = "robots"
    /\ calls' = Append(calls, "run_active_check")
    /\ UNCHANGED <<config, checks_to_run, errors, status_result, redirect_result>>
    /\ UNCHANGED <<loaderVars, driverVars, validatorVars, familyVars>>

\* lines 254-259
RobotsCheck ==
    /\ pc = "robots"
    /\ IF Get(checks_to_run, "robots", TRUE)
       THEN \E r \in FoundReplies :
              /\ result' = add_check_result(result, "robots", r)
              /\ errors' = IF HasError(r) THEN Append(errors, "robots") ELSE errors
              /\ calls' = Append(calls, "run_robots_check")
       ELSE UNCHANGED <<result, errors, calls>>
    /\ pc' = "sitemap"
    /\ UNCHANGED <<config, checks_to_run, status_result, redirect_result, db_calls, exception>>
    /\ UNCHANGED <<loaderVars, driverVars, validatorVars, familyVars>>

\* lines 261-266
SitemapCheck ==
    /\ pc = "sitemap"
    /\ IF Get(checks_to_run, "sitemap", TRUE)
       THEN \E r \in FoundReplies :
              /\ result' = add_check_result(result, "sitemap", r)
              /\ errors' = IF HasError(r) THEN Append(errors, "sitemap") ELSE errors
              /\ calls' = Append(calls, "run_sitemap_check")
       ELSE UNCHANGED <<result, errors, calls>>
    /\ pc' = "ssl"
    /\ UNCHANGED <<config, checks_to_run, status_result, redirect_result, db_calls, exception>>
    /\ UNCHANGED <<loaderVars, driverVars, validatorVars, familyVars>>

\* faulty variant of SslCheck: the ssl check is awaited where the status check
\* belongs
SslCheck_BeforeStatus ==
    /\ pc = "status"
    /\ IF Get(checks_to_run, "ssl", TRUE)
       THEN \E r \in SslReplies :
              /\ result' = add_check_result(result, "ssl", r)
              /\ errors' = IF HasError(r) THEN Append(errors, "ssl") ELSE errors
              /\ calls' = Append(calls, "run_ssl_check")
       ELSE UNCHANGED <<result, errors, calls>>
    /\ pc' = "redirect"
    /\ UNCHANGED <<config, checks_to_run, status_result, redirect_result, db_calls, exception>>
    /\ UNCHANGED <<loaderVars, driverVars, validatorVars, familyVars>>

\* lines 268-273
SslCheck ==
    /\ pc = "ssl"
    /\ IF Get(checks_to_run, "ssl", TRUE)
       THEN \E r \in SslReplies :
              /\ result' = add_check_result(result, "ssl", r)
              /\ errors' = IF HasError(r) THEN Append(errors, "ssl") ELSE errors
              /\ calls' = Append(calls, "run_ssl_check")
       ELSE UNCHANGED <<result, errors, calls>>
    /\ pc' = "finalize"
    /\ UNCHANGED <<config, checks_to_run, status_result, redirect_result, db_calls, exception>>
    /\ UNCHANGED <<loaderVars, driverVars, validatorVars, familyVars>>

\* lines 275-291: overall status, metadata, summary, return
Finalize ==
    /\ pc = "finalize"
    /\ result' = update_summary(update_result_meta(result, OverallStatus(config, errors), errors))
    /\ pc' = "returned"
    /\ UNCHANGED <<config, checks_to_run, errors, status_result, redirect_result, calls,
                   db_calls, exception>>
    /\ UNCHANGED <<loaderVars, driverVars, validatorVars, familyVars>>

NextPipeline ==
    \/ StartDomain
    \/ QuickWhoisCheck
    \/ WhoisCheck
    \/ NoRegistrationCheck
    \/ StatusCheck
    \/ RedirectCheck
    \/ ActiveCheck
    \/ RobotsCheck
    \/ SitemapCheck
    \/ SslCheck
    \/ Finalize

-----------------------------------------------------------------------------
(* Configurations and requests handed to process_domain *)

\* config['checks'] with the checks of on enabled and those of off disabled
ChecksConfig(on, off) == [c \in on \cup off |-> [enabled |-> c \in on]]

LegacyCheckNames == {"whois", "status", "redirect", "robots", "sitemap", "ssl"}

CheckConfigs ==
    { ChecksConfig(LegacyCheckNames, {}),
      EmptyDict,
      ChecksConfig({"status"}, {}),
      ChecksConfig(LegacyCheckNames \ {"whois"}, {}),
      ChecksConfig(LegacyCheckNames \ {"whois", "robots"}, {"whois", "robots"}),
      ChecksConfig({"whois", "ssl"}, {"status", "redirect", "robots", "sitemap"}) }

DatabaseConfigs ==
    { [postgres_url |-> "postgresql://db"],
      [postgres_url |-> "postgresql://db", save_results |-> FALSE],
      [url |-> "postgresql://db"] }

Configs == {[checks |-> c, database |-> d] : c \in CheckConfigs, d \in DatabaseConfigs}

\* profiles = None (legacy mode) is the empty list: the code only tests "not profiles"
PipelineRequests ==
    { <<>>, <<"quick-check">>, <<"standard">>, <<"whois">>, <<"dns">>, <<"seo">>,
      <<"quick-whois", "whois">>, <<UnknownName>> }

\* is_same_domain has not been called
IdleFamily ==
    /\ domain1 = None
    /\ domain2 = None
    /\ fpc = "idle"
    /\ same_domain = FALSE

\* the loader and the validator have not been called
IdleLoaderFields(reg) ==
    /\ registry = reg
    /\ entry = "none"
    /\ lpc = "idle"
    /\ expanded = {}
    /\ all_profiles = {}
    /\ in_degree = <<>>
    /\ queue = <<>>
    /\ sorted_profiles = <<>>
    /\ error = NoError
    /\ missing = {}
    /\ remaining = {}
    /\ satisfied = {}
    /\ parallel_groups = <<>>
    /\ validation = None

IdleLoaderWith(reg) == IdleLoaderFields(reg) /\ IdleFamily

IdleLoader == IdleLoaderWith(PROFILE_DEPENDENCIES)

\* process_domains has not been called; d is the domain a direct caller of
\* process_domain passes
IdleDriverWith(d) ==
    /\ bpc = "idle"
    /\ domains = <<>>
    /\ idx = 0
    /\ domain = d
    /\ results = <<>>
    /\ save_to_db = FALSE

IdlePipeline ==
    /\ config = EmptyDict
    /\ pc = "idle"
    /\ checks_to_run = EmptyDict
    /\ result = EmptyDict
    /\ errors = <<>>
    /\ status_result = None
    /\ redirect_result = None
    /\ calls = <<>>
    /\ db_calls = <<>>
    /\ exception = NoError

Init ==
    /\ IdleLoader
    /\ profiles \in PipelineRequests
    /\ config \in Configs
    /\ pc = "start"
    /\ checks_to_run = EmptyDict
    /\ result = EmptyDict
    /\ errors = <<>>
    /\ status_result = None
    /\ redirect_result = None
    /\ calls = <<>>
    /\ db_calls = <<>>
    /\ exception = NoError
    /\ IdleDriverWith(Domain)

Next == NextPipeline

Spec == Init /\ [][Next]_vars

-----------------------------------------------------------------------------
(* Requests and initial states of the loader *)

RequestNames == DOMAIN PROFILE_DEPENDENCIES \cup {UnknownName}

SeqsUpTo(S, n) == UNION {[1..k -> S] : k \in 0..n}

\* the closure a request leads to (empty when expansion fails)
ClosureOfRequest(reg, req) ==
    LET e == expand_meta_profiles(reg, req)
    IN IF e.err # NoError THEN {} ELSE CollectDependencies(reg, e.out)

\* request lists over names, of length at most n, whose closure stays small
Requests(reg, names, n) ==
    {req \in SeqsUpTo(names, n) : Cardinality(ClosureOfRequest(reg, req)) <= MaxClosure}

\* the caller invokes resolve_profile_dependencies or get_profile_execution_plan
\* with a request list over names
Call(names, n) ==
    /\ lpc = "idle"
    /\ \E e \in {"resolve", "plan"} :
          /\ entry' = e
          /\ profiles' \in Requests(registry, names,
                                    IF e = "plan" THEN MaxPlanRequestLen ELSE n)
    /\ lpc' = "expand"
    /\ UNCHANGED <<registry, expanded, all_profiles, in_degree, queue, sorted_profiles,
                   error, missing, remaining, satisfied, parallel_groups>>
    /\ UNCHANGED <<pipelineVars, driverVars, validatorVars, familyVars>>

\* the loader module as imported, before any call
InitLoaderWith(reg) ==
    /\ IdleLoaderWith(reg)
    /\ profiles = <<>>
    /\ IdlePipeline
    /\ IdleDriverWith(None)

InitResolver == InitLoaderWith(PROFILE_DEPENDENCIES)

NextResolver == Call(RequestNames, MaxRequestLen) \/ NextLoader

SpecResolver == InitResolver /\ [][NextResolver]_vars

-----------------------------------------------------------------------------
(* The loader over an edited registry *)

\* PROFILE_DEPENDENCIES as shipped, and after an edit that introduces a cycle
\* (two profiles, one profile on itself, through a third profile) or that puts
\* an unregistered name into a meta profile's list
EditedRegistries ==
    { PROFILE_DEPENDENCIES,
      [PROFILE_DEPENDENCIES EXCEPT !["http"] = <<"content">>],
      [PROFILE_DEPENDENCIES EXCEPT !["dns"] = <<"dns">>],
      [PROFILE_DEPENDENCIES EXCEPT !["headers"] = <<"http", "security">>],
      [PROFILE_DEPENDENCIES EXCEPT !["monitor"] = <<"quick-whois", "http", UnknownName>>] }

\* the names the edits touch, their dependents, and untouched ones
EditedRequestNames ==
    {"dns", "http", "content", "headers", "security", "seo", "monitor", "quick-check",
     UnknownName}

InitEdited == \E reg \in EditedRegistries : InitLoaderWith(reg)

NextEdited == Call(EditedRequestNames, MaxEditedRequestLen) \/ NextLoader

SpecEdited == InitEdited /\ [][NextEdited]_vars

\* the interpreter always executes the next statement of a running call
SpecEditedFair == SpecEdited /\ WF_vars(NextEdited)

-----------------------------------------------------------------------------
(* The loader over a registry whose meta profiles list meta profiles *)

\* PROFILE_DEPENDENCIES as shipped (no meta profile lists a meta profile), and
\* after edits that put a meta profile into a meta profile's list: one level of
\* nesting, two levels, and two meta profiles that list each other
NestedRegistries ==
    { PROFILE_DEPENDENCIES,
      [PROFILE_DEPENDENCIES EXCEPT !["standard"] = <<"quick-check", "dns">>],
      [PROFILE_DEPENDENCIES EXCEPT !["standard"] = <<"quick-check", "dns">>,
                                   !["monitor"] = <<"standard", "ssl">>],
      [PROFILE_DEPENDENCIES EXCEPT !["standard"] = <<"quick-check", "dns">>,
                                   !["quick-check"] = <<"standard">>] }

\* the meta profiles the edits touch, plain profiles, and an unregistered name
NestedRequestNames == {"standard", "quick-check", "monitor", "dns", "http", UnknownName}

InitNested == \E reg \in NestedRegistries : InitLoaderWith(reg)

NextNested == Call(NestedRequestNames, MaxNestedRequestLen) \/ NextLoader

SpecNested == InitNested /\ [][NextNested]_vars

-----------------------------------------------------------------------------
(* validate_profile_combination over an edited registry *)

\* the name the UnknownProfileError of expand_meta_profiles carries: the first
\* unregistered name the expansion meets
RECURSIVE FirstUnknown(_, _, _)
FirstUnknown(reg, profs, path) ==
    IF profs = <<>> THEN None
    ELSE LET profile == Head(profs) IN
         IF ~validate_profile_name(reg, profile) THEN profile
         ELSE LET sub == IF is_meta_profile(profile) /\ profile \notin path
                         THEN FirstUnknown(reg, get_profile_dependencies(reg, profile),
                                           path \cup {profile})
                         ELSE None
              IN IF sub # None THEN sub ELSE FirstUnknown(reg, Tail(profs), path)

\* the error messages: a text and the names put into it
Message(text, about) == [text |-> text, about |-> about]

\* the error_message None of a valid combination
NoMessage == Message(None, {})

\* str(e) of the ProfileError resolve_profile_dependencies raised
ProfileErrorMessage ==
    IF error = "CircularDependencyError"
    THEN Message("Circular dependency detected involving", missing)
    ELSE Message("Unknown profile", {FirstUnknown(registry, profiles, {})})

\* the exceptions derived from ProfileError
ProfileErrors == {"UnknownProfileError", "CircularDependencyError"}

\* the caller invokes validate_profile_combination with a request list
CallValidate(names, n) ==
    /\ lpc = "idle"
    /\ entry' = "validate"
    /\ profiles' \in Requests(registry, names, n)
    /\ lpc' = "validate"
    /\ UNCHANGED <<registry, expanded, all_profiles, in_degree, queue, sorted_profiles,
                   error, missing, remaining, satisfied, parallel_groups>>
    /\ UNCHANGED <<pipelineVars, driverVars, validatorVars, familyVars>>

\* faulty variant of ValidateNames: the names of the request are not looked at
ValidateNames_EmptyOnly ==
    /\ lpc = "validate"
    /\ IF profiles = <<>>
       THEN /\ validation' = [is_valid |-> FALSE, message |-> Message("No profiles specified", {})]
            /\ lpc' = "validated"
       ELSE /\ validation' = [is_valid |-> TRUE, message |-> NoMessage]
            /\ lpc' = "validated"
    /\ UNCHANGED <<registry, entry, profiles, expanded, all_profiles, in_degree, queue,
                   sorted_profiles, error, missing, remaining, satisfied, parallel_groups>>
    /\ UNCHANGED <<pipelineVars, driverVars, familyVars>>

\* lines 253-263: the empty list and the first unknown name end the call; any
\* other request goes to resolve_profile_dependencies
ValidateNames ==
    /\ lpc = "validate"
    /\ LET invalid == SelectSeq(profiles, LAMBDA p : ~validate_profile_name(registry, p)) IN
         IF profiles = <<>>
         THEN /\ validation' = [is_valid |-> FALSE,
                             message  |-> Message("No profiles specified", {})]
              /\ lpc' = "validated"
         ELSE IF invalid # <<>>
         THEN /\ validation' = [is_valid |-> FALSE,
                             message  |-> Message("Unknown profile", {Head(invalid)})]
              /\ lpc' = "validated"
         ELSE /\ lpc' = "expand"
              /\ UNCHANGED validation
    /\ UNCHANGED <<registry, entry, profiles, expanded, all_profiles, in_degree, queue,
                   sorted_profiles, error, missing, remaining, satisfied, parallel_groups>>
    /\ UNCHANGED <<pipelineVars, driverVars, familyVars>>

\* lines 262-266: resolve_profile_dependencies returned, or raised a
\* ProfileError that is turned into the message; any other exception leaves
\* validate_profile_combination too
ValidateFinish ==
    /\ entry = "validate"
    /\ \/ /\ lpc = "returned"
          /\ validation' = [is_valid |-> TRUE, message |-> NoMessage]
          /\ lpc' = "validated"
       \/ /\ lpc = "raised"
          /\ error \in ProfileErrors
          /\ validation' = [is_valid |-> FALSE, message |-> ProfileErrorMessage]
          /\ lpc' = "validated"
    /\ UNCHANGED <<registry, entry, profiles, expanded, all_profiles, in_degree, queue,
                   sorted_profiles, error, missing, remaining, satisfied, parallel_groups>>
    /\ UNCHANGED <<pipelineVars, driverVars, familyVars>>

NextValidator ==
    \/ CallValidate(EditedRequestNames, MaxEditedRequestLen)
    \/ ValidateNames
    \/ ValidateFinish
    \/ NextEdited

SpecValidator == InitEdited /\ [][NextValidator]_vars

-----------------------------------------------------------------------------
(* The loader called with one meta bundle *)

\* the caller resolves a single meta profile; the execution plan is asked for
\* the bundles whose closure stays small
CallBundle ==
    /\ lpc = "idle"
    /\ \E m \in get_meta_profiles(registry), e \in {"resolve", "plan"} :
          /\ e = "plan" => Cardinality(ClosureOfRequest(registry, <<m>>)) <= MaxClosure
          /\ entry' = e
          /\ profiles' = <<m>>
    /\ lpc' = "expand"
    /\ UNCHANGED <<registry, expanded, all_profiles, in_degree, queue, sorted_profiles,
                   error, missing, remaining, satisfied, parallel_groups>>
    /\ UNCHANGED <<pipelineVars, driverVars, validatorVars, familyVars>>

NextBundles == CallBundle \/ NextLoader

SpecBundles == InitResolver /\ [][NextBundles]_vars

-----------------------------------------------------------------------------
(* Batch driver: orchestrator.process_domains *)

\* longest domain list handed to process_domains
MaxDomains == 2

\* db_config.get('postgres_url')
DbUrl(cfg) == Get(get_database_config(cfg), "postgres_url", None)

\* init_db: True when the connection opens and the three tables exist, False
\* when tables are missing or psycopg2 raises
InitDbReplies == BOOLEAN

SaveWrite(d, task) == [op |-> "save_result", domain |-> d, task |-> task]

\* lines 310-333: read the database settings and initialise persistence; the
\* plan is only logged
SetupBatch ==
    /\ bpc = "setup"
    /\ \E init_db \in InitDbReplies :
          save_to_db' = IF SaveResults(config) /\ DbUrl(config) # None
                        THEN init_db
                        ELSE SaveResults(config)
    /\ bpc' = "loop"
    /\ UNCHANGED <<domains, idx, domain, results>>
    /\ UNCHANGED <<loaderVars, pipelineVars, validatorVars, familyVars>>

\* lines 336-337: the for loop takes the next domain and calls process_domain
BeginDomain ==
    /\ bpc = "loop"
    /\ idx < Len(domains)
    /\ idx' = idx + 1
    /\ domain' = domains[idx + 1]
    /\ bpc' = "domain"
    /\ pc' = "start"
    /\ checks_to_run' = EmptyDict
    /\ result' = EmptyDict
    /\ errors' = <<>>
    /\ status_result' = None
    /\ redirect_result' = None
    /\ UNCHANGED <<config, calls, db_calls, exception>>
    /\ UNCHANGED <<domains, results, save_to_db>>
    /\ UNCHANGED <<loaderVars, validatorVars, familyVars>>

\* faulty variant of EndDomain: the record is put at the front of the list
EndDomain_Prepend ==
    /\ bpc = "domain"
    /\ pc = "returned"
    /\ results' = << result >> \o results
    /\ db_calls' = IF save_to_db /\ DbUrl(config) # None
                    THEN Append(db_calls,
                                SaveWrite(domain, Get(Get(result, "meta", EmptyDict),
                                                      "task", "basic-scan")))
                    ELSE db_calls
    /\ bpc' = "loop"
    /\ pc' = "idle"
    /\ UNCHANGED <<config, checks_to_run, result, errors, status_result, redirect_result,
                   calls, exception>>
    /\ UNCHANGED <<domains, idx, domain, save_to_db>>
    /\ UNCHANGED <<loaderVars, validatorVars, familyVars>>

\* lines 337-346: process_domain returned; keep the record and save it
EndDomain ==
    /\ bpc = "domain"
    /\ pc = "returned"
    /\ results' = Append(results, result)
    /\ db_calls' = IF save_to_db /\ DbUrl(config) # None
                    THEN Append(db_calls,
                                SaveWrite(domain, Get(Get(result, "meta", EmptyDict),
                                                      "task", "basic-scan")))
                    ELSE db_calls
    /\ bpc' = "loop"
    /\ pc' = "idle"
    /\ UNCHANGED <<config, checks_to_run, result, errors, status_result, redirect_result,
                   calls, exception>>
    /\ UNCHANGED <<domains, idx, domain, save_to_db>>
    /\ UNCHANGED <<loaderVars, validatorVars, familyVars>>

\* line 337: an exception of process_domain leaves process_domains as well
DomainRaised ==
    /\ bpc = "domain"
    /\ pc = "raised"
    /\ bpc' = "raised"
    /\ UNCHANGED <<domains, idx, domain, results, save_to_db>>
    /\ UNCHANGED <<loaderVars, pipelineVars, validatorVars, familyVars>>

\* line 348: the loop is exhausted
ReturnBatch ==
    /\ bpc = "loop"
    /\ idx = Len(domains)
    /\ bpc' = "returned"
    /\ UNCHANGED <<domains, idx, domain, results, save_to_db>>
    /\ UNCHANGED <<loaderVars, pipelineVars, validatorVars, familyVars>>

NextDriver == SetupBatch \/ BeginDomain \/ EndDomain \/ DomainRaised \/ ReturnBatch

DomainNames == {"example.lt", "other.lt"}

\* configurations that enable one legacy check each
BatchCheckConfigs ==
    {ChecksConfig({c}, LegacyCheckNames \ {c}) : c \in LegacyCheckNames}

\* a database section with a URL and saving left at its default
DatabaseWithUrl == [postgres_url |-> "postgresql://db"]

\* (config, profiles) pairs handed to process_domains: legacy mode with each
\* of the check configurations, the two registration variants as profiles, and
\* the fast variant with each of the database sections
BatchInputs ==
    {[config |-> [checks |-> c, database |-> DatabaseWithUrl], profiles |-> <<>>] :
        c \in BatchCheckConfigs}
    \cup
    {[config |-> [checks |-> EmptyDict, database |-> DatabaseWithUrl], profiles |-> r] :
        r \in {<<"quick-whois">>, <<"whois">>}}
    \cup
    {[config |-> [checks |-> EmptyDict, database |-> d], profiles |-> <<"quick-whois">>] :
        d \in DatabaseConfigs}

InitBatch ==
    /\ IdleLoader
    /\ \E inp \in BatchInputs :
          /\ config = inp.config
          /\ profiles = inp.profiles
    /\ domains \in SeqsUpTo(DomainNames, MaxDomains)
    /\ bpc = "setup"
    /\ idx = 0
    /\ domain = None
    /\ results = <<>>
    /\ save_to_db = FALSE
    /\ pc = "idle"
    /\ checks_to_run = EmptyDict
    /\ result = EmptyDict
    /\ errors = <<>>
    /\ status_result = None
    /\ redirect_result = None
    /\ calls = <<>>
    /\ db_calls = <<>>
    /\ exception = NoError

NextBatch == NextDriver \/ NextPipeline

SpecBatch == InitBatch /\ [][NextBatch]_vars

-----------------------------------------------------------------------------
(* Same-domain comparison: utils/domain_utils.py, checks/active_check.py *)

\* A domain or URL string is held as its parts: the protocol before '://' (""
\* when the string has none), the host labels between the dots, and the path
\* behind the host ("" when there is none).

\* str.lower() on the labels and protocols that occur
Lower(x) ==
    CASE x = "EXAMPLE" -> "example"
      [] x = "Example" -> "example"
      [] x = "LT"      -> "lt"
      [] x = "WWW"     -> "www"
      [] x = "HTTPS"   -> "https"
      [] OTHER         -> x

LowerAll(labels) == [i \in 1..Len(labels) |-> Lower(labels[i])]

\* the last n labels of a host
LastLabels(labels, n) == SubSeq(labels, Len(labels) - n + 1, Len(labels))

\* domain_utils.py lines 32-37, each pattern split at its dots
KEEP_SUBDOMAIN_PATTERNS == << <<"gov", "lt">>, <<"lrv", "lt">>, <<"edu", "lt">>, <<"mil", "lt">> >>

\* hostname.endswith(pattern): the pattern starts with a dot, so a label stands
\* before it
EndsWithPattern(hostname, pattern) ==
    /\ Len(hostname) > Len(pattern)
    /\ LastLabels(hostname, Len(pattern)) = pattern

\* domain_utils.py lines 106-108: hostname.startswith('www.') drops the prefix
StripWww(hostname) ==
    IF Len(hostname) >= 2 /\ hostname[1] = "www" THEN Tail(hostname) ELSE hostname

\* domain_utils.py lines 63-129, for a string with a host: urlparse takes the
\* host out of the URL whatever the protocol and the path are, the host is
\* lowercased, a www. prefix is dropped, a host under a keep pattern is
\* returned whole, any other host is cut to its last two labels
extract_main_domain(url) ==
    LET hostname == StripWww(LowerAll(url.host))
    IN IF \E i \in 1..Len(KEEP_SUBDOMAIN_PATTERNS) :
             EndsWithPattern(hostname, KEEP_SUBDOMAIN_PATTERNS[i])
       THEN hostname
       ELSE IF Len(hostname) >= 2 THEN LastLabels(hostname, 2) ELSE hostname

\* domain_utils.py lines 218-245
is_same_domain_family(d1, d2) ==
    LowerAll(extract_main_domain(d1)) = LowerAll(extract_main_domain(d2))

\* active_check.py lines 65-87
is_same_domain(d1, d2) == is_same_domain_family(d1, d2)

Url(scheme, host, path) == [scheme |-> scheme, host |-> host, path |-> path]

\* hosts compared: a domain, its www and upper-case spellings, subdomains of
\* it, another domain, and hosts under a keep pattern
Hosts ==
    { <<"example", "lt">>, <<"www", "example", "lt">>, <<"EXAMPLE", "LT">>,
      <<"WWW", "Example", "lt">>, <<"blog", "example", "lt">>,
      <<"shop", "example", "lt">>, <<"other", "lt">>,
      <<"stat", "gov", "lt">>, <<"www", "stat", "gov", "lt">>, <<"lrv", "gov", "lt">> }

Schemes == {"", "http", "https", "HTTPS"}

Paths == {"", "/about"}

\* a bare domain, or a URL with a protocol and maybe a path
Urls ==
    {Url("", h, "") : h \in Hosts} \cup
    {Url(s, h, p) : s \in Schemes \ {""}, h \in {<<"example", "lt">>, <<"www", "example", "lt">>,
                                                 <<"blog", "example", "lt">>, <<"other", "lt">>},
                    p \in Paths}

\* the caller is about to compare two strings
InitFamily ==
    /\ IdleLoaderFields(PROFILE_DEPENDENCIES)
    /\ profiles = <<>>
    /\ IdlePipeline
    /\ IdleDriverWith(None)
    /\ domain1 \in Urls
    /\ domain2 \in Urls
    /\ fpc = "called"
    /\ same_domain = FALSE

\* active_check.py line 87: the comparison returns
ReturnSameDomain ==
    /\ fpc = "called"
    /\ same_domain' = is_same_domain(domain1, domain2)
    /\ fpc' = "returned"
    /\ UNCHANGED <<domain1, domain2>>
    /\ UNCHANGED <<loaderVars, pipelineVars, driverVars, validatorVars>>

NextFamily == ReturnSameDomain

SpecFamily == InitFamily /\ [][NextFamily]_vars

-----------------------------------------------------------------------------
(* Properties of the per-domain pipeline, checked under Spec *)

RegistrationEntries == {"quick-whois", "whois"}

ConnectivityCalls == {"run_status_check", "run_redirect_check", "run_active_check"}

FullSuiteCalls == {"run_robots_check", "run_sitemap_check", "run_ssl_check"}

\* the checks whose failure process_domain records in its error list
TrackedChecks == {"status", "redirects", "robots", "sitemap", "ssl"}

Returned == pc = "returned"

\* process_domain returned from its last line, not from a bailout
OnDonePath == Returned /\ "skip_reason" \notin DOMAIN result.meta

\* the registration check v ran and reported the given status
RegistrationReported(v, status) ==
    /\ v \in DOMAIN result.checks
    /\ Get(result.checks[v], "status", None) = status

ActiveReported(active) ==
    /\ "active" \in DOMAIN result.checks
    /\ result.checks["active"].active = active

\* C1: whichever registration variant ran, a domain it reports as 'available'
\* is returned with status 'skipped' and skip_reason 'unregistered', its checks
\* hold the registration entry alone, and only the registration collaborator
\* was awaited.
C1_UnregisteredIsSkipped ==
    \A v \in RegistrationEntries :
        (Returned /\ RegistrationReported(v, "available"))
        => /\ result.meta.status = "skipped"
           /\ Get(result.meta, "skip_reason", None) = "unregistered"
           /\ DOMAIN result.checks = {v}
           /\ Range(calls) \cap (ConnectivityCalls \cup FullSuiteCalls) = {}

\* C4: a domain reported registered whose activity check says active = false is
\* returned 'partial' with skip_reason 'inactive'; its checks hold the
\* registration entry, the active entry and the status/redirects entries that
\* are enabled, nothing else, and no robots, sitemap or ssl collaborator ran.
C4_InactiveIsPartial ==
    \A v \in RegistrationEntries :
        (Returned /\ RegistrationReported(v, "registered") /\ ActiveReported(FALSE))
        => /\ result.meta.status = "partial"
           /\ Get(result.meta, "skip_reason", None) = "inactive"
           /\ DOMAIN result.checks =
                {v, "active"}
                \cup (IF Get(checks_to_run, "status", TRUE) THEN {"status"} ELSE {})
                \cup (IF Get(checks_to_run, "redirect", TRUE) THEN {"redirects"} ELSE {})
           /\ Range(calls) \cap FullSuiteCalls = {}

C4_Witness ==
    /\ Returned
    /\ RegistrationReported("whois", "registered")
    /\ ActiveReported(FALSE)
    /\ {"status", "redirects"} \subseteq DOMAIN result.checks
    /\ result.meta.status = "partial"

\* the tracked checks that ran, and those of them that failed
Attempted == DOMAIN result.checks \cap TrackedChecks

Failed == {c \in Attempted : HasError(result.checks[c])}

\* C5: on the DONE path the overall status is 'success' when no attempted
\* check failed, 'error' when every attempted check failed, and 'partial' when
\* some but not all of them failed.
C5_StatusFromAttempted ==
    OnDonePath =>
        result.meta.status = IF Failed = {} THEN "success"
                             ELSE IF Failed = Attempted THEN "error"
                             ELSE "partial"

\* the grading policy applied to a summary
PolicyGrade(summary) ==
    IF ~summary.reachable THEN "F"
    ELSE IF summary.issues > 2 THEN "D"
    ELSE IF summary.issues >= 1 THEN "C"
    ELSE IF summary.warnings >= 1 THEN "B"
    ELSE "A"

\* C6: in every terminal state the returned record's grade is the one the
\* grading policy gives its summary (F, D, C, B or A).
C6_GradeFollowsPolicy ==
    Returned => result.summary.grade = PolicyGrade(result.summary)

\* every check that ran on a registered, active domain completed without error
AllChecksSucceeded(v) ==
    /\ Returned
    /\ RegistrationReported(v, "registered")
    /\ ActiveReported(TRUE)
    /\ \A c \in DOMAIN result.checks : ~HasError(result.checks[c])

\* C9 as stated: registered, active, no check in error: status 'success', and
\* grade 'A' whenever zero issues and zero warnings are recorded.
C9_SuccessIsGradeA ==
    \A v \in RegistrationEntries :
        AllChecksSucceeded(v)
        => /\ result.meta.status = "success"
           /\ (result.summary.issues = 0 /\ result.summary.warnings = 0
               => result.summary.grade = "A")

\* the status check ran and found the site reachable
StatusOk == "status" \in DOMAIN result.checks /\ Get(result.checks["status"], "ok", FALSE)

\* C9 amended: registered, active, no check in error: status 'success', zero
\* issues and warnings, and grade 'A' exactly when the status check ran and
\* reported ok, grade 'F' otherwise.
C9_SuccessGrade ==
    \A v \in RegistrationEntries :
        AllChecksSucceeded(v)
        => /\ result.meta.status = "success"
           /\ result.summary.issues = 0
           /\ result.summary.warnings = 0
           /\ result.summary.grade = IF StatusOk THEN "A" ELSE "F"

C9_Witness ==
    /\ AllChecksSucceeded("whois")
    /\ profiles = <<"standard">>
    /\ {"status", "redirects", "robots", "sitemap", "ssl"} \subseteq DOMAIN result.checks
    /\ result.summary.grade = "A"

\* the request handed to process_domain cannot be resolved
InvalidRequest ==
    profiles # <<>> /\ ResolveCall(PROFILE_DEPENDENCIES, profiles).err # NoError

\* C12: a request that names an unknown profile (or fails the cycle check) is
\* rejected before any network activity: no check collaborator is awaited, no
\* persistence write is attempted and no record is returned for it.
C12_InvalidRequestRejected ==
    InvalidRequest =>
        /\ calls = <<>>
        /\ db_calls = <<>>
        /\ pc # "returned"

RegistrationCalls == {"run_das_check", "run_whois_check"}

\* the stage a check collaborator belongs to
StageOf(call) ==
    IF call \in RegistrationCalls THEN 1
    ELSE IF call \in ConnectivityCalls THEN 2
    ELSE 3

\* the result entry a collaborator's output is recorded under
EntryOf(call) ==
    CASE call = "run_das_check"      -> "quick-whois"
      [] call = "run_whois_check"    -> "whois"
      [] call = "run_status_check"   -> "status"
      [] call = "run_redirect_check" -> "redirects"
      [] call = "run_active_check"   -> "active"
      [] call = "run_robots_check"   -> "robots"
      [] call = "run_sitemap_check"  -> "sitemap"
      [] call = "run_ssl_check"      -> "ssl"

\* C15: within one run of process_domain the collaborators are awaited stage by
\* stage: a registration check, if any, is the first call; the status and
\* redirect checks come before the activity check; every robots, sitemap or
\* ssl call comes after the activity check; no call of an earlier stage
\* follows one of a later stage, and every call made has completed and has its
\* output recorded before the next one is made.
C15_StagesInOrder ==
    /\ \A i, j \in 1..Len(calls) :
          i < j => StageOf(calls[i]) <= StageOf(calls[j])
    /\ \A j \in 1..Len(calls) :
          /\ calls[j] \in RegistrationCalls => j = 1
          /\ calls[j] \in FullSuiteCalls =>
                \E i \in 1..(j - 1) : calls[i] = "run_active_check"
          /\ calls[j] = "run_active_check" =>
                \A i \in (j + 1)..Len(calls) : calls[i] \in FullSuiteCalls
          /\ EntryOf(calls[j]) \in DOMAIN result.checks

C15_Witness ==
    /\ Returned
    /\ calls = <<"run_whois_check", "run_status_check", "run_redirect_check",
                 "run_active_check", "run_robots_check", "run_sitemap_check",
                 "run_ssl_check">>

\* process_domain has got past its registration step
PastRegistration == pc \notin {"idle", "start", "registration"}

\* the registration collaborator the request and the configuration select:
\* in profile mode the fast one when the resolved order holds quick-whois, else
\* the full one when it holds whois; in legacy mode (no request, or one that
\* cannot be resolved) the full one unless the config disables whois; None
\* when neither is selected
SelectedRegistrationCall ==
    LET r      == ResolveCall(PROFILE_DEPENDENCIES, profiles)
        legacy == profiles = <<>> \/ r.err # NoError
        whois_enabled == Get(Get(Get(config, "checks", EmptyDict), "whois", EmptyDict),
                             "enabled", TRUE)
    IN IF legacy THEN (IF whois_enabled THEN "run_whois_check" ELSE None)
       ELSE IF "quick-whois" \in r.names THEN "run_das_check"
       ELSE IF "whois" \in r.names THEN "run_whois_check"
       ELSE None

\* C20 as stated: every run starts with a registration check, whose output is
\* recorded before any other collaborator is awaited.
C20_RegistrationFirst ==
    PastRegistration =>
        /\ calls # <<>>
        /\ calls[1] \in RegistrationCalls
        /\ EntryOf(calls[1]) \in DOMAIN result.checks

\* C20, amended: a run starts with the registration check that is selected,
\* awaited once and recorded before any other collaborator is awaited; when
\* none is selected (a request whose resolved order holds neither quick-whois
\* nor whois, or legacy mode with whois disabled) no registration check is
\* awaited at all and the run goes straight to the connectivity stage.
C20_SelectedRegistrationFirst ==
    PastRegistration =>
        IF SelectedRegistrationCall # None
        THEN /\ calls # <<>>
             /\ calls[1] = SelectedRegistrationCall
             /\ EntryOf(calls[1]) \in DOMAIN result.checks
             /\ \A j \in 2..Len(calls) : calls[j] \notin RegistrationCalls
        ELSE /\ Range(calls) \cap RegistrationCalls = {}
             /\ DOMAIN result.checks \cap RegistrationEntries = {}

C20_Witness ==
    /\ Returned
    /\ profiles = <<"quick-check">>
    /\ calls = <<"run_das_check", "run_status_check", "run_redirect_check",
                 "run_active_check">>
    /\ "quick-whois" \in DOMAIN result.checks

\* a run without any registration check
C20_NoRegistrationReached ==
    /\ Returned
    /\ profiles = <<"seo">>
    /\ calls[1] = "run_status_check"

\* the result entries in which a profile's output is recorded
ProfileEntries(p) ==
    CASE p = "http" -> {"status", "redirects"}
      [] p = "seo"  -> {"robots", "sitemap"}
      [] OTHER      -> {p}

\* the request was given as profiles and resolved
ProfileMode == profiles # <<>> /\ ResolveCall(PROFILE_DEPENDENCIES, profiles).err = NoError

\* C21: on the DONE path every profile of the resolved execution order,
\* dns and the analysis and intelligence profiles included, has had its
\* collaborator awaited and its output recorded in the checks of the record.
C21_EveryResolvedProfileRan ==
    (OnDonePath /\ ProfileMode) =>
        \A p \in ResolveCall(PROFILE_DEPENDENCIES, profiles).names :
            ProfileEntries(p) \subseteq DOMAIN result.checks

\* the checks_to_run flag and the collaborator behind a tracked result entry
FlagOf(c) == IF c = "redirects" THEN "redirect" ELSE c

CallOf(c) ==
    CASE c = "status"    -> "run_status_check"
      [] c = "redirects" -> "run_redirect_check"
      [] c = "robots"    -> "run_robots_check"
      [] c = "sitemap"   -> "run_sitemap_check"
      [] c = "ssl"       -> "run_ssl_check"

\* the tracked check c is enabled and has been awaited and recorded
RanIfEnabled(c) ==
    Get(checks_to_run, FlagOf(c), TRUE) =>
        /\ CallOf(c) \in Range(calls)
        /\ c \in DOMAIN result.checks

\* C22: an error returned by a check never keeps a later enabled check from
\* being awaited.  Once the activity check has been awaited, the enabled
\* status and redirect checks have both run; once the full suite is over, the
\* activity check and every enabled robots, sitemap and ssl check have run,
\* whatever the earlier ones returned.  The checks that returned an error are
\* exactly the ones in the error list, a check error never raises out of
\* process_domain, and a returned record carries the list.
C22_ErrorsDoNotStopLaterChecks ==
    /\ "run_active_check" \in Range(calls) =>
          RanIfEnabled("status") /\ RanIfEnabled("redirects")
    /\ (pc = "finalize" \/ OnDonePath) =>
          /\ "run_active_check" \in Range(calls)
          /\ \A c \in {"robots", "sitemap", "ssl"} : RanIfEnabled(c)
    /\ pc \notin {"idle", "start"} => Range(errors) = Failed
    /\ pc = "raised" =>
          exception = "KeyError" /\ SaveResults(config) /\ ~HasPostgresUrl(config)
    /\ (Returned /\ errors # <<>>) => result.meta.errors = errors

C22_Witness ==
    /\ OnDonePath
    /\ Len(calls) = 7
    /\ errors = <<"status", "redirects", "robots", "ssl">>
    /\ HasError(result.checks["status"])
    /\ ~HasError(result.checks["sitemap"])

\* the run got past the activity determination of lines 218-219
PastActivity ==
    \/ pc \in {"robots", "sitemap", "ssl", "finalize"}
    \/ Returned /\ Get(result.meta, "skip_reason", None) # "unregistered"
    \/ pc = "raised" /\ RegistrationCalls \cap Range(calls) = {}

\* the value the pipeline holds for a connectivity check: the collaborator's
\* output when the check ran, None when it did not
HeldInput(held, call, c) ==
    IF call \in Range(calls) THEN held = result.checks[c] ELSE held = None

\* C23: in every run that passes the registration stage the activity
\* collaborator is awaited exactly once, after every enabled status and redirect
\* check; it is awaited also when neither ran, and then both of its inputs are
\* None; its output is recorded under 'active' before the bailout decision, so
\* also a record returned by the inactive bailout holds it.
C23_ActivityOnceAfterConnectivity ==
    /\ Count("run_active_check", calls) <= 1
    /\ PastActivity =>
          /\ Count("run_active_check", calls) = 1
          /\ "active" \in DOMAIN result.checks
    /\ "run_active_check" \in Range(calls) =>
          /\ RanIfEnabled("status") /\ RanIfEnabled("redirects")
          /\ \A c \in {"run_status_check", "run_redirect_check"} :
                Index(c, calls) < Index("run_active_check", calls)
          /\ HeldInput(status_result, "run_status_check", "status")
          /\ HeldInput(redirect_result, "run_redirect_check", "redirects")

\* neither connectivity check ran, the activity check did and found the domain
\* inactive
C23_Witness ==
    /\ Returned
    /\ Get(result.meta, "skip_reason", None) = "inactive"
    /\ ConnectivityCalls \cap Range(calls) = {"run_active_check"}
    /\ status_result = None /\ redirect_result = None
    /\ ActiveReported(FALSE)

\* both connectivity checks ran before the activity check
C23_WitnessAfterBoth ==
    /\ pc = "robots"
    /\ ConnectivityCalls \subseteq Range(calls)
    /\ Index("run_redirect_check", calls) < Index("run_active_check", calls)

\* C24: when the registration collaborator reports an error instead of an
\* answer, whichever variant ran, the domain is treated as registered: the run
\* never takes the 'unregistered' exit, it goes on to the status check, and once
\* it is past the connectivity stage the activity check has been awaited.  The
\* only run that stops at the registration stage after an error is the one whose
\* flag write raised KeyError for a configuration without postgres_url.
C24_RegistrationErrorMeansRegistered ==
    \A v \in RegistrationEntries :
        (pc \notin {"idle", "start"} /\ RegistrationReported(v, "error")) =>
            /\ Get(result.meta, "skip_reason", None) # "unregistered"
            /\ result.meta.status # "skipped"
            /\ PastRegistration
            /\ pc = "raised" => exception = "KeyError" /\ ~HasPostgresUrl(config)
            /\ (Returned \/ pc \in {"robots", "sitemap", "ssl", "finalize"}) =>
                  "run_active_check" \in Range(calls)

\* the fast variant reported an error and the status check is next
C24_Witness ==
    /\ pc = "status"
    /\ RegistrationReported("quick-whois", "error")
    /\ calls = <<"run_das_check">>

\* the full variant reported an error and the run reached the DONE path
C24_WitnessFull ==
    /\ OnDonePath
    /\ RegistrationReported("whois", "error")
    /\ "run_ssl_check" \in Range(calls)

\* the status the registration check that ran reported, None when none ran
ReportedRegistrationStatus ==
    IF "quick-whois" \in DOMAIN result.checks
    THEN Get(result.checks["quick-whois"], "status", None)
    ELSE IF "whois" \in DOMAIN result.checks
    THEN Get(result.checks["whois"], "status", None)
    ELSE None

IsRegisteredWrites ==
    {i \in 1..Len(db_calls) : db_calls[i].op = "update_domain_flags"
                              /\ db_calls[i].flag = "is_registered"}

\* C25: the is_registered flag is written from the registration result: a
\* write happens only when the check reported 'registered' or 'available',
\* never when it reported an error, and the value written is true for
\* 'registered' and false for 'available'.
C25_FlagFromDefinitiveAnswer ==
    pc \notin {"idle", "start"} =>
        \A i \in IsRegisteredWrites :
            /\ ReportedRegistrationStatus \in {"registered", "available"}
            /\ db_calls[i].value = (ReportedRegistrationStatus = "registered")

\* the part of C25 about errors alone: no write after an error
C25_NoWriteOnError ==
    (pc \notin {"idle", "start"} /\ ReportedRegistrationStatus = "error") =>
        IsRegisteredWrites = {}

\* the part of C25 about the value alone
C25_WrittenValueIsReported ==
    (pc \notin {"idle", "start"} /\ ReportedRegistrationStatus \in {"registered", "available"}) =>
        \A i \in IsRegisteredWrites :
            db_calls[i].value = (ReportedRegistrationStatus = "registered")

\* the same, for the fast variant alone
C25_FastValueIsReported ==
    (pc \notin {"idle", "start"} /\ "quick-whois" \in DOMAIN result.checks
       /\ ReportedRegistrationStatus \in {"registered", "available"}) =>
        /\ \A i \in IsRegisteredWrites :
              db_calls[i].value = (ReportedRegistrationStatus = "registered")
        /\ (SaveResults(config) /\ pc # "raised") => IsRegisteredWrites # {}

\* skip_reason of the record, None when the record has none
SkipReason == Get(result.meta, "skip_reason", None)

\* the run went through the full suite: the activity check found the domain
\* active and the record was returned from the last line
FullSuiteReturned ==
    /\ Returned
    /\ "active" \in DOMAIN result.checks
    /\ IsActive(result.checks["active"])

\* C29: a record returned by process_domain is never left 'pending': its
\* status is success, partial, error or skipped; skip_reason is 'unregistered'
\* exactly when the status is 'skipped'; skip_reason 'inactive' comes only with
\* status 'partial'; a record returned after the full suite has no skip_reason.
C29_ReturnedRecordStatus ==
    Returned =>
        /\ result.meta.status \in {"success", "partial", "error", "skipped"}
        /\ SkipReason \in {None, "unregistered", "inactive"}
        /\ SkipReason = "unregistered" <=> result.meta.status = "skipped"
        /\ SkipReason = "inactive" => result.meta.status = "partial"
        /\ FullSuiteReturned => SkipReason = None
        /\ SkipReason = "inactive" <=> ActiveReported(FALSE)

\* the inactive bailout returned a partial record
C29_Witness ==
    /\ Returned
    /\ result.meta.status = "partial"
    /\ SkipReason = "inactive"

C29_WitnessSkipped == Returned /\ result.meta.status = "skipped" /\ SkipReason = "unregistered"

C29_WitnessSuccess == FullSuiteReturned /\ result.meta.status = "success"

C29_WitnessError == FullSuiteReturned /\ result.meta.status = "error"

C29_WitnessPartial == FullSuiteReturned /\ result.meta.status = "partial"

\* the request resolves to an order that holds both registration variants
BothVariantsResolved ==
    /\ ProfileMode
    /\ RegistrationEntries \subseteq ResolveCall(PROFILE_DEPENDENCIES, profiles).names

\* C30: one run awaits at most one of the two registration collaborators and
\* records at most one registration entry.  When the resolved order holds both
\* quick-whois and whois, the run awaits the fast one alone: past the
\* registration stage the record holds a 'quick-whois' entry and no 'whois'
\* entry, and run_whois_check, the only fetch of the full registration data,
\* has not been awaited.
C30_AtMostOneRegistrationVariant ==
    pc \notin {"idle", "start"} =>
        /\ Count("run_das_check", calls) + Count("run_whois_check", calls) <= 1
        /\ Cardinality(RegistrationEntries \cap DOMAIN result.checks) <= 1
        /\ BothVariantsResolved =>
              /\ "run_whois_check" \notin Range(calls)
              /\ "whois" \notin DOMAIN result.checks
              /\ pc # "registration" =>
                    /\ calls[1] = "run_das_check"
                    /\ "quick-whois" \in DOMAIN result.checks

\* both variants were requested and the run went through the full suite
C30_Witness ==
    /\ BothVariantsResolved
    /\ profiles = <<"quick-whois", "whois">>
    /\ FullSuiteReturned
    /\ RegistrationReported("quick-whois", "registered")

-----------------------------------------------------------------------------
(* Properties of the batch driver, checked under SpecBatch *)

\* saving was configured and init_db returned False
InitDbFailed ==
    /\ bpc \notin {"idle", "setup"}
    /\ SaveResults(config)
    /\ DbUrl(config) # None
    /\ ~save_to_db

\* results holds one record per domain taken so far, in input order
OneRecordPerDomain(n) ==
    /\ Len(results) = n
    /\ \A i \in 1..n : results[i].domain = domains[i]

\* C13: when init_db fails the batch still runs every domain and returns one
\* record per domain, and it runs without persistence: no save_result, no
\* update_domain_flags and no captured-domain insert is attempted.
C13_NoPersistenceAfterInitFailure ==
    InitDbFailed =>
        /\ bpc # "raised"
        /\ bpc = "returned" => OneRecordPerDomain(Len(domains))
        /\ db_calls = <<>>

\* save_result is called for the records of this batch
Saving == save_to_db /\ DbUrl(config) # None

\* the domains of the save_result calls made so far, in call order
SavedDomains ==
    LET saves == SelectSeq(db_calls, LAMBDA w : w.op = "save_result")
    IN [i \in 1..Len(saves) |-> saves[i].domain]

\* the first n domains have returned, each has its record in results at its
\* input position, and (when saving) each record went to save_result in turn
HandledInOrder(n) ==
    /\ OneRecordPerDomain(n)
    /\ SavedDomains = IF Saving THEN SubSeq(domains, 1, n) ELSE <<>>

\* C14: process_domains takes the domains one at a time in input order: while
\* the pipeline of the k-th domain runs, exactly the k-1 domains before it have
\* returned and had their records handed to save_result; between two domains
\* no pipeline is running; the list returned holds one record per input
\* domain in input order, and save_result was called in that same order.
C14_OneAtATimeInOrder ==
    /\ pc \notin {"idle"} => bpc \in {"domain", "raised"}
    /\ bpc \in {"domain", "raised"} =>
          /\ idx \in 1..Len(domains)
          /\ domain = domains[idx]
          /\ HandledInOrder(idx - 1)
    /\ bpc = "loop" => HandledInOrder(idx)
    /\ bpc = "returned" => idx = Len(domains) /\ HandledInOrder(Len(domains))

C14_Witness ==
    /\ bpc = "returned"
    /\ Saving
    /\ domains = <<"other.lt", "example.lt">>
    /\ Len(results) = 2
    /\ results[1].domain = "other.lt"
    /\ SavedDomains = domains
    /\ results[1].meta.status # results[2].meta.status

-----------------------------------------------------------------------------
(* Properties of the same-domain comparison, checked under SpecFamily *)

\* the host of a string, lowercased and without a leading www label
PlainHost(url) ==
    LET h == LowerAll(url.host)
    IN IF h[1] = "www" THEN Tail(h) ELSE h

\* the two strings differ at most by a www. prefix, the protocol, the path or
\* the letter case
SpellingsOfOneName(u1, u2) == PlainHost(u1) = PlainHost(u2)

\* one string names a subdomain of the domain the other one names
DistinctSubdomain(u1, u2) ==
    \/ Len(PlainHost(u2)) > Len(PlainHost(u1))
         /\ LastLabels(PlainHost(u2), Len(PlainHost(u1))) = PlainHost(u1)
    \/ Len(PlainHost(u1)) > Len(PlainHost(u2))
         /\ LastLabels(PlainHost(u1), Len(PlainHost(u2))) = PlainHost(u2)

\* the two strings name domains that share no registered domain
UnrelatedDomains(u1, u2) == LastLabels(PlainHost(u1), 2) # LastLabels(PlainHost(u2), 2)

\* C28: is_same_domain returns True for two strings that differ only by a www.
\* prefix, the protocol or the letter case, and False when one of them names a
\* distinct subdomain of the other (example.lt and blog.example.lt), just as it
\* returns False for two unrelated domains (example.lt and other.lt).
C28_SameDomainFamily ==
    fpc = "returned" =>
        /\ SpellingsOfOneName(domain1, domain2) => same_domain
        /\ DistinctSubdomain(domain1, domain2) => ~same_domain
        /\ UnrelatedDomains(domain1, domain2) => ~same_domain

\* the parts of C28 that hold: spellings of one name are the same domain,
\* unrelated domains are different
C28_SpellingsAndStrangers ==
    fpc = "returned" =>
        /\ SpellingsOfOneName(domain1, domain2) => same_domain
        /\ UnrelatedDomains(domain1, domain2) => ~same_domain

\* example.lt and blog.example.lt were compared and judged the same domain
C28_SubdomainJudgedSame ==
    /\ fpc = "returned"
    /\ domain1 = Url("", <<"example", "lt">>, "")
    /\ domain2 = Url("", <<"blog", "example", "lt">>, "")
    /\ same_domain

\* under a keep pattern a subdomain is told apart
C28_KeptSubdomainDiffers ==
    /\ fpc = "returned"
    /\ domain1 = Url("", <<"stat", "gov", "lt">>, "")
    /\ domain2 = Url("", <<"lrv", "gov", "lt">>, "")
    /\ ~same_domain

-----------------------------------------------------------------------------
(* Properties of the profile loader *)

\* S closed under direct-dependency edges
RECURSIVE DependencyClosure(_, _)
DependencyClosure(reg, S) ==
    LET T == S \cup UNION {Range(get_profile_dependencies(reg, p)) : p \in S}
    IN IF T = S THEN S ELSE DependencyClosure(reg, T)

\* what p depends on, directly or through other profiles
Ancestors(reg, p) == DependencyClosure(reg, Range(get_profile_dependencies(reg, p)))

OnCycle(reg, p) == p \in Ancestors(reg, p)

\* the profiles of all that are on a cycle or depend on a profile that is
Unorderable(reg, all) ==
    {p \in all : \E c \in Ancestors(reg, p) \cup {p} : OnCycle(reg, c)}

\* order lists every name of names once, each after all of its dependencies
IsTopologicalOrder(reg, order, names) ==
    /\ Range(order) = names
    /\ Len(order) = Cardinality(names)
    /\ \A i \in 1..Len(order) :
         \A dep \in Range(get_profile_dependencies(reg, order[i])) :
            \E j \in 1..(i - 1) : order[j] = dep

ResolveReturned == lpc = "returned" /\ entry = "resolve"

PlanReturned == lpc = "returned" /\ entry = "plan"

\* C2: in the order resolve_profile_dependencies returns, every profile stands
\* at a strictly later position than each of its direct dependencies.
C2_DependenciesFirst ==
    ResolveReturned =>
        \A i \in 1..Len(sorted_profiles) :
            \A dep \in Range(get_profile_dependencies(registry, sorted_profiles[i])) :
                \E j \in 1..(i - 1) : sorted_profiles[j] = dep

C2_Witness ==
    /\ ResolveReturned
    /\ profiles = <<"seo", "headers">>
    /\ Len(sorted_profiles) = 4
    /\ sorted_profiles[1] = "http"

\* C3: the names resolve_profile_dependencies returns are exactly the
\* dependency closure of the meta-expanded request, each once, and none of them
\* is a meta profile.
C3_ClosureOfExpansion ==
    ResolveReturned =>
        LET e == expand_meta_profiles(registry, profiles) IN
        /\ e.err = NoError
        /\ Range(sorted_profiles) = DependencyClosure(registry, e.out)
        /\ Len(sorted_profiles) = Cardinality(Range(sorted_profiles))
        /\ \A p \in Range(sorted_profiles) : ~is_meta_profile(p)

C3_Witness ==
    /\ ResolveReturned
    /\ profiles = <<"quick-check", "seo">>
    /\ Range(sorted_profiles) = {"quick-whois", "http", "content", "seo"}

\* the request is expandable and its dependency closure holds a cycle
CycleRequested ==
    LET e == expand_meta_profiles(registry, profiles) IN
    /\ e.err = NoError
    /\ \E p \in DependencyClosure(registry, e.out) : OnCycle(registry, p)

CycleRaised ==
    /\ lpc = "raised"
    /\ error = "CircularDependencyError"
    /\ missing # {}
    /\ missing = Unorderable(registry, all_profiles)

\* C7: when the closure of the request holds a cycle, the call never returns
\* an order, and it ends by raising CircularDependencyError naming the profiles
\* that could not be ordered.
C7_CycleRaises ==
    /\ [](CycleRequested => lpc \notin {"returned", "groups"})
    /\ [](CycleRequested /\ lpc = "raised" => CycleRaised)
    /\ (CycleRequested ~> lpc = "raised")

C7_Witness ==
    /\ CycleRequested
    /\ CycleRaised
    /\ sorted_profiles # <<>>
    /\ Cardinality(missing) >= 2

\* the names a request brings in: its own, and those of the lists of the meta
\* profiles it names
RECURSIVE NamesRequested(_, _, _)
NamesRequested(reg, names, seen) ==
    LET metas == {m \in names \ seen : is_meta_profile(m) /\ m \in DOMAIN reg}
        more  == UNION {Range(reg[m]) : m \in metas}
    IN IF metas = {} THEN names
       ELSE NamesRequested(reg, names \cup more, seen \cup metas)

UnknownRequested ==
    \E n \in NamesRequested(registry, Range(profiles), {}) : n \notin DOMAIN registry

\* C8: a request that names an unregistered profile, itself or through a meta
\* profile's list, never gets past expansion: the call raises
\* UnknownProfileError and no order, not even a partial one, is produced.
C8_UnknownRaises ==
    UnknownRequested =>
        /\ lpc \in {"expand", "raised"}
        /\ lpc = "raised" => error = "UnknownProfileError"
        /\ sorted_profiles = <<>>
        /\ all_profiles = {}

C8_Witness ==
    /\ lpc = "raised"
    /\ error = "UnknownProfileError"
    /\ profiles = <<"dns", "monitor">>
    /\ UnknownName \notin Range(profiles)

\* C10: the groups of get_profile_execution_plan, concatenated in order, hold
\* every profile of execution_order exactly once and form a topological order
\* of the dependency graph.
C10_GroupsConcatenateToOrder ==
    PlanReturned =>
        LET flat == Concat(parallel_groups) IN
        /\ Len(flat) = Len(execution_order)
        /\ \A p \in Range(execution_order) : Count(p, flat) = 1
        /\ remaining = {}
        /\ IsTopologicalOrder(registry, flat, Range(execution_order))

C10_Witness ==
    /\ PlanReturned
    /\ profiles = <<"security">>
    /\ Len(parallel_groups) = 3
    /\ Len(parallel_groups[1]) = 2

\* every name of the request list is a registry name
ValidRequest == \A n \in Range(profiles) : validate_profile_name(registry, n)

\* the request list names a profile twice
RepeatsAName == \E i, j \in 1..Len(profiles) : i # j /\ profiles[i] = profiles[j]

\* the request list names a meta profile together with one of its members
NamesBundleAndMember ==
    \E i, j \in 1..Len(profiles) :
        /\ is_meta_profile(profiles[i])
        /\ profiles[j] \in Range(get_profile_dependencies(registry, profiles[i]))

\* C11: a call of resolve_profile_dependencies with a valid request list, also
\* one that repeats a name or names a meta bundle next to one of its members,
\* does not raise, and in the list it returns every name occurs once: each
\* requested non-meta name is there, and no name is there twice.
C11_EachNameOnce ==
    (entry = "resolve" /\ ValidRequest) =>
        /\ lpc # "raised"
        /\ lpc = "returned" =>
              /\ \A n \in Range(profiles) :
                    ~is_meta_profile(n) => Count(n, sorted_profiles) = 1
              /\ \A i, j \in 1..Len(sorted_profiles) :
                    sorted_profiles[i] = sorted_profiles[j] => i = j

C11_Witness ==
    /\ ResolveReturned
    /\ RepeatsAName
    /\ profiles = <<"whois", "whois">>
    /\ sorted_profiles = <<"whois">>

\* the bundle-and-member case of C11 is reached as well
C11_BundleAndMemberReached ==
    /\ ResolveReturned
    /\ NamesBundleAndMember
    /\ profiles = <<"standard", "seo">>
    /\ Count("seo", sorted_profiles) = 1

QuickCheckResolved == ResolveReturned /\ profiles = <<"quick-check">>

\* C16 as stated: resolve_profile_dependencies(['quick-check']) returns the
\* fast registration check followed by http, and nothing else.
C16_QuickCheckInOrder ==
    QuickCheckResolved => sorted_profiles = <<"quick-whois", "http">>

\* C16, amended: resolve_profile_dependencies(['quick-check']) does not raise
\* and returns exactly quick-whois and http, each once and in either order;
\* whois is never in it.
C16_QuickCheckProfiles ==
    (entry = "resolve" /\ profiles = <<"quick-check">>) =>
        /\ lpc # "raised"
        /\ lpc = "returned" =>
              /\ Len(sorted_profiles) = 2
              /\ Range(sorted_profiles) = {"quick-whois", "http"}
              /\ "whois" \notin Range(sorted_profiles)

C16_Witness ==
    /\ QuickCheckResolved
    /\ sorted_profiles = <<"http", "quick-whois">>

\* the bundles built on the full registration check, and those built on the
\* fast one
FullWhoisBundles == {"standard", "technical-audit", "business-research", "complete"}

QuickWhoisBundles == {"quick-check", "monitor"}

\* C17: resolving a single meta bundle does not raise and returns exactly one
\* registration variant: standard holds whois, dns, http, ssl and seo and not
\* quick-whois; technical-audit, business-research and complete hold whois and
\* not quick-whois; quick-check and monitor hold quick-whois and not whois.
C17_OneRegistrationVariant ==
    (entry = "resolve" /\ Len(profiles) = 1 /\ is_meta_profile(profiles[1])) =>
        /\ lpc # "raised"
        /\ profiles[1] \in FullWhoisBundles \cup QuickWhoisBundles
        /\ lpc = "returned" =>
              LET out == Range(sorted_profiles) IN
              /\ profiles[1] \in FullWhoisBundles =>
                    out \cap RegistrationEntries = {"whois"}
              /\ profiles[1] \in QuickWhoisBundles =>
                    out \cap RegistrationEntries = {"quick-whois"}
              /\ profiles[1] = "standard" =>
                    {"whois", "dns", "http", "ssl", "seo"} \subseteq out

C17_Witness ==
    /\ ResolveReturned
    /\ profiles = <<"complete">>
    /\ Len(sorted_profiles) = 13
    /\ "whois" \in Range(sorted_profiles)
    /\ "quick-whois" \notin Range(sorted_profiles)

Validated == entry = "validate" /\ lpc = "validated"

\* the message names its cause: the empty request, an unregistered name the
\* request brings in, or the profiles that could not be ordered
DescriptiveMessage(message) ==
    /\ message # NoMessage
    /\ profiles = <<>> => message = Message("No profiles specified", {})
    /\ UnknownRequested =>
          /\ message.text = "Unknown profile"
          /\ \E n \in NamesRequested(registry, Range(profiles), {}) \ DOMAIN registry :
                message.about = {n}
    /\ CycleRequested =>
          /\ message.text = "Circular dependency detected involving"
          /\ message.about = Unorderable(registry, all_profiles)
          /\ message.about # {}

\* C18: validate_profile_combination always returns a pair.  It is (False,
\* message) with a message naming the cause when the request is empty, when it
\* names a profile that is not registered (itself or through a meta profile's
\* list), or when resolution raises CircularDependencyError; in every other
\* case it is (True, None).
C18_ValidateOutcome ==
    entry = "validate" =>
        /\ lpc = "raised" => error \in ProfileErrors
        /\ Validated =>
              IF profiles = <<>> \/ UnknownRequested \/ CycleRequested
              THEN /\ validation.is_valid = FALSE
                   /\ DescriptiveMessage(validation.message)
              ELSE validation = [is_valid |-> TRUE, message |-> NoMessage]

C18_Witness ==
    /\ Validated
    /\ CycleRequested
    /\ validation.is_valid = FALSE
    /\ validation.message.text = "Circular dependency detected involving"
    /\ Cardinality(validation.message.about) >= 2

\* C19: the registry the loader works on keeps its data invariants: every
\* name in a dependency list is a registry name, every profile has a category,
\* every core profile has an empty list, every meta profile a non-empty one,
\* and no profile depends on itself, directly or through other profiles.
C19_RegistryInvariants ==
    /\ DOMAIN registry = DOMAIN ProfileCategory
    /\ \A p \in DOMAIN registry :
          /\ Range(get_profile_dependencies(registry, p)) \subseteq get_all_profiles(registry)
          /\ is_core_profile(p) => get_profile_dependencies(registry, p) = <<>>
          /\ is_meta_profile(p) => get_profile_dependencies(registry, p) # <<>>
          /\ ~OnCycle(registry, p)

C19_Witness ==
    /\ ResolveReturned
    /\ profiles = <<"quick-check", "security">>
    /\ Len(sorted_profiles) = 5
    /\ get_core_profiles(registry) = {"quick-whois", "whois", "dns", "http", "ssl"}
    /\ Cardinality(get_meta_profiles(registry)) = 6
    /\ Cardinality(get_all_profiles(registry)) = 22

\* the grouping loop of get_profile_execution_plan is running or has returned
Grouping == entry = "plan" /\ lpc \in {"groups", "returned"}

\* C26: in parallel_groups a profile stands in a group only when each of its
\* direct dependencies stands in a strictly earlier group, so no group holds a
\* profile together with one of its dependencies, and the first group holds
\* exactly the profiles of the resolved order that have no dependencies.
C26_GroupsRespectDependencies ==
    Grouping =>
        /\ \A k \in 1..Len(parallel_groups) :
              \A p \in Range(parallel_groups[k]) :
                 \A dep \in Range(get_profile_dependencies(registry, p)) :
                    /\ \E j \in 1..(k - 1) : dep \in Range(parallel_groups[j])
                    /\ dep \notin Range(parallel_groups[k])
        /\ parallel_groups # <<>> =>
              Range(parallel_groups[1]) =
                 {p \in Range(execution_order) : get_profile_dependencies(registry, p) = <<>>}
        /\ (PlanReturned /\ execution_order # <<>>) => parallel_groups # <<>>

\* a chain of three groups behind a first group of one
C26_Witness ==
    /\ PlanReturned
    /\ Len(parallel_groups) >= 3
    /\ parallel_groups[1] = <<"http">>
    /\ \E p \in Range(parallel_groups[3]) : "content" \in Range(get_profile_dependencies(registry, p))

\* a meta profile of the registry reaches itself through dependency lists
MetaCycle(reg) == \E m \in get_meta_profiles(reg) : OnCycle(reg, m)

\* a meta profile of the registry lists a meta profile
MetaListsMeta(reg) ==
    \E m \in get_meta_profiles(reg) :
        \E d \in Range(get_profile_dependencies(reg, m)) : is_meta_profile(d)

\* C27: over a registry in which meta profiles list meta profiles,
\* expand_meta_profiles comes to an end for every request, by returning or by
\* raising UnknownProfileError, never by running out of stack, and what it
\* returns holds no meta profile name.
C27_ExpansionTerminates ==
    /\ lpc = "raised" => error # "RecursionError"
    /\ lpc \notin {"idle", "expand", "raised"} =>
          /\ expanded = expand_meta_profiles(registry, profiles).out
          /\ \A p \in expanded : ~is_meta_profile(p)

\* the part of C27 that holds: while no meta profile reaches itself, also when
\* meta profiles are nested, the expansion ends and returns non-meta names only
C27_AcyclicNestingExpands ==
    ~MetaCycle(registry) =>
        /\ lpc = "raised" => error # "RecursionError"
        /\ lpc \notin {"idle", "expand", "raised"} =>
              /\ expanded = expand_meta_profiles(registry, profiles).out
              /\ \A p \in expanded : ~is_meta_profile(p)

\* a request through two levels of nested meta profiles has been expanded
C27_NestedExpanded ==
    /\ lpc = "collect"
    /\ profiles = <<"monitor">>
    /\ MetaListsMeta(registry)
    /\ expanded = {"quick-whois", "http", "dns", "ssl"}

\* two meta profiles list each other and the expansion ran out of stack
C27_RecursionAborted ==
    /\ lpc = "raised"
    /\ error = "RecursionError"
    /\ MetaCycle(registry)

\* the whole-call operator used by the pipeline agrees with the stepwise loader
ResolveCallAgrees ==
    LoaderDone =>
        LET r == ResolveCall(registry, profiles) IN
        /\ r.err = error
        /\ lpc = "returned" => Range(sorted_profiles) = r.names

=============================================================================
